---- MODULE Spec2Model ----
(***************************************************************************)
(* Vedic birth-chart and Ashtakoota compatibility core of starlight_backend *)
(* (app/services/birth_chart.py, app/services/compatibility_service.py).    *)
(*                                                                          *)
(* Angles are exact integers counted in 1/UnitsPerDegree of a degree, so    *)
(* that 30 degrees (a sign) and 13 deg 20 min (a nakshatra, 40/3 degrees)    *)
(* are both computed without rounding.  Koota points are counted in half    *)
(* points (Tara awards 1.5), so "points2" is always twice the points.       *)
(***************************************************************************)
EXTENDS Integers, Sequences, FiniteSets, TLC

VARIABLES
    pc,             \* where the computation under way stands
    call,           \* SpecCalls: the function under call and its arguments
    ret,            \* SpecCalls: <<>> until it returns, then <<its return value>>
    person1_chart,  \* SpecMatch: the chart generated for person 1
    person2_chart,  \* SpecMatch: the chart generated for person 2
    response,       \* SpecMatch: the CompatibilityMatchResponse
    request,        \* SpecChart: the caller's arguments, then the BirthChartRequest
    julian_day,     \* SpecChart: the Julian day handed to the ephemeris, in ticks
    sid_mode,       \* SpecChart: the adapter's active sidereal mode (swe.set_sid_mode)
    ayanamsa_value, \* SpecChart: what calculate_ayanamsa returned
    houses,         \* SpecChart: the House records
    planet_index,   \* SpecChart: position of calculate_planet_positions' loop in Planet
    planets,        \* SpecChart: the PlanetPosition records appended so far
    queries,        \* SpecChart: the bodies swe.calc_ut was asked for, in order
    swe_calls,      \* SpecChart: the operations of the ephemeris adapter invoked so far
    chart           \* SpecChart: the BirthChartResponse, or the error raised

callVars == <<call, ret>>

matchVars == <<person1_chart, person2_chart, response>>

chartVars ==
    <<request, julian_day, sid_mode, ayanamsa_value, houses, planet_index, planets,
      queries, swe_calls, chart>>

vars == <<pc, callVars, matchVars, chartVars>>

(***************************************************************************)
(* Resolution of the model and the angle unit.                             *)
(***************************************************************************)
UnitsPerDegree == 3

Deg(d) == d * UnitsPerDegree

Circle == Deg(360)

Longitudes == 0 .. (Circle - 1)

(***************************************************************************)
(* Zodiac signs, indexed 0..11 as in ZODIAC_SIGNS.                         *)
(***************************************************************************)
ZODIAC_SIGNS ==
    <<"Aries", "Taurus", "Gemini", "Cancer", "Leo", "Virgo",
      "Libra", "Scorpio", "Sagittarius", "Capricorn", "Aquarius", "Pisces">>

\* A sign lookup that gives each boundary 30k to the earlier sign.
get_zodiac_sign_boundary_earlier(longitude) ==
    LET sign_index == IF longitude > 0 THEN (longitude - 1) \div Deg(30) ELSE 0 IN
    IF sign_index \in 0 .. 11 THEN ZODIAC_SIGNS[sign_index + 1] ELSE "IndexError"

\* get_zodiac_sign: int(longitude // 30) indexes ZODIAC_SIGNS.  Python accepts
\* the indices -12..11 (a negative index counts from the end) and raises
\* IndexError on every other index, modelled as "IndexError".
get_zodiac_sign(longitude) ==
    LET sign_index == longitude \div Deg(30) IN
    IF sign_index \in 0 .. 11 THEN ZODIAC_SIGNS[sign_index + 1]
    ELSE IF sign_index \in -12 .. -1 THEN ZODIAC_SIGNS[sign_index + 13]
    ELSE "IndexError"

\* get_degree_in_sign: longitude % 30
get_degree_in_sign(longitude) == longitude % Deg(30)

(***************************************************************************)
(* Sidereal correction.                                                    *)
(***************************************************************************)
AccuracyFixes_apply_ayanamsa_correction(longitude, ayanamsa) ==
    (longitude - ayanamsa) % Circle

apply_ayanamsa_correction(longitude, ayanamsa) ==
    LET corrected_longitude == longitude - ayanamsa IN
    IF corrected_longitude < 0 THEN corrected_longitude + Circle
    ELSE corrected_longitude

(***************************************************************************)
(* House placement.                                                        *)
(***************************************************************************)
\* The membership test of house i (0-based) in get_house_number's loop body.
InHouseNoWrap(i, longitude, normalized_cusps) ==
    LET cusp_current == normalized_cusps[i + 1]
        cusp_next    == normalized_cusps[((i + 1) % 12) + 1]
    IN  cusp_current <= longitude /\ longitude < cusp_next

InHouse(i, longitude, normalized_cusps) ==
    LET cusp_current == normalized_cusps[i + 1]
        cusp_next    == normalized_cusps[((i + 1) % 12) + 1]
    IN  IF cusp_current > cusp_next
        THEN longitude >= cusp_current \/ longitude < cusp_next
        ELSE cusp_current <= longitude /\ longitude < cusp_next

\* for i in range(12): return i + 1 at the first match; fallback 1.
RECURSIVE ScanHouses(_, _, _)
ScanHouses(i, longitude, normalized_cusps) ==
    IF i = 12 THEN 1
    ELSE IF InHouse(i, longitude, normalized_cusps) THEN i + 1
    ELSE ScanHouses(i + 1, longitude, normalized_cusps)

get_house_number(longitude, house_cusps) ==
    LET normalized_longitude == longitude % Circle
        normalized_cusps == [k \in 1 .. 12 |-> house_cusps[k] % Circle]
    IN  ScanHouses(0, normalized_longitude, normalized_cusps)

(***************************************************************************)
(* Ashtakoota reference data (CompatibilityMatchingService).               *)
(***************************************************************************)
\* dict.get(key, default)
Get(table, key, default) == IF key \in DOMAIN table THEN table[key] ELSE default

Min(a, b) == IF a <= b THEN a ELSE b

\* self.nakshatras: rows 1..27 (the name column is left out).
Nak(lord, gana, yoni, nadi) == [lord |-> lord, gana |-> gana, yoni |-> yoni, nadi |-> nadi]

nakshatras ==
    (1 :> Nak("Ketu", "Deva", "Horse", "Vata")) @@
    (2 :> Nak("Venus", "Manushya", "Elephant", "Pitta")) @@
    (3 :> Nak("Sun", "Rakshasa", "Goat", "Kapha")) @@
    (4 :> Nak("Moon", "Manushya", "Serpent", "Kapha")) @@
    (5 :> Nak("Mars", "Deva", "Serpent", "Pitta")) @@
    (6 :> Nak("Rahu", "Manushya", "Dog", "Vata")) @@
    (7 :> Nak("Jupiter", "Deva", "Cat", "Vata")) @@
    (8 :> Nak("Saturn", "Deva", "Goat", "Pitta")) @@
    (9 :> Nak("Mercury", "Rakshasa", "Cat", "Kapha")) @@
    (10 :> Nak("Ketu", "Rakshasa", "Rat", "Kapha")) @@
    (11 :> Nak("Venus", "Manushya", "Rat", "Pitta")) @@
    (12 :> Nak("Sun", "Manushya", "Cow", "Vata")) @@
    (13 :> Nak("Moon", "Deva", "Buffalo", "Vata")) @@
    (14 :> Nak("Mars", "Rakshasa", "Tiger", "Pitta")) @@
    (15 :> Nak("Rahu", "Deva", "Buffalo", "Kapha")) @@
    (16 :> Nak("Jupiter", "Rakshasa", "Tiger", "Kapha")) @@
    (17 :> Nak("Saturn", "Deva", "Deer", "Pitta")) @@
    (18 :> Nak("Mercury", "Rakshasa", "Deer", "Vata")) @@
    (19 :> Nak("Ketu", "Rakshasa", "Dog", "Vata")) @@
    (20 :> Nak("Venus", "Manushya", "Monkey", "Pitta")) @@
    (21 :> Nak("Sun", "Manushya", "Mongoose", "Kapha")) @@
    (22 :> Nak("Moon", "Deva", "Monkey", "Kapha")) @@
    (23 :> Nak("Mars", "Rakshasa", "Lion", "Pitta")) @@
    (24 :> Nak("Rahu", "Rakshasa", "Horse", "Vata")) @@
    (25 :> Nak("Jupiter", "Manushya", "Lion", "Vata")) @@
    (26 :> Nak("Saturn", "Manushya", "Cow", "Pitta")) @@
    (27 :> Nak("Mercury", "Deva", "Elephant", "Kapha"))

varna_system ==
    ("Aries" :> "Kshatriya") @@ ("Taurus" :> "Vaishya") @@ ("Gemini" :> "Shudra") @@
    ("Cancer" :> "Brahmin") @@ ("Leo" :> "Kshatriya") @@ ("Virgo" :> "Vaishya") @@
    ("Libra" :> "Shudra") @@ ("Scorpio" :> "Brahmin") @@ ("Sagittarius" :> "Kshatriya") @@
    ("Capricorn" :> "Vaishya") @@ ("Aquarius" :> "Shudra") @@ ("Pisces" :> "Brahmin")

vashya_system ==
    ("Aries" :> "Quadruped") @@ ("Taurus" :> "Quadruped") @@ ("Gemini" :> "Human") @@
    ("Cancer" :> "Water") @@ ("Leo" :> "Quadruped") @@ ("Virgo" :> "Human") @@
    ("Libra" :> "Human") @@ ("Scorpio" :> "Insect") @@ ("Sagittarius" :> "Human") @@
    ("Capricorn" :> "Water") @@ ("Aquarius" :> "Human") @@ ("Pisces" :> "Water")

varna_compatibility ==
    (<<"Brahmin", "Brahmin">> :> 1) @@ (<<"Brahmin", "Kshatriya">> :> 1) @@
    (<<"Brahmin", "Vaishya">> :> 1) @@ (<<"Brahmin", "Shudra">> :> 1) @@
    (<<"Kshatriya", "Brahmin">> :> 0) @@ (<<"Kshatriya", "Kshatriya">> :> 1) @@
    (<<"Kshatriya", "Vaishya">> :> 1) @@ (<<"Kshatriya", "Shudra">> :> 1) @@
    (<<"Vaishya", "Brahmin">> :> 0) @@ (<<"Vaishya", "Kshatriya">> :> 0) @@
    (<<"Vaishya", "Vaishya">> :> 1) @@ (<<"Vaishya", "Shudra">> :> 1) @@
    (<<"Shudra", "Brahmin">> :> 0) @@ (<<"Shudra", "Kshatriya">> :> 0) @@
    (<<"Shudra", "Vaishya">> :> 0) @@ (<<"Shudra", "Shudra">> :> 1)

vashya_compatibility ==
    (<<"Quadruped", "Quadruped">> :> 2) @@ (<<"Quadruped", "Human">> :> 1) @@
    (<<"Human", "Human">> :> 2) @@ (<<"Human", "Water">> :> 1) @@
    (<<"Human", "Insect">> :> 0) @@ (<<"Water", "Water">> :> 2) @@
    (<<"Water", "Human">> :> 1) @@ (<<"Insect", "Insect">> :> 2) @@
    (<<"Insect", "Human">> :> 0)

gana_compatibility ==
    (<<"Deva", "Deva">> :> 6) @@ (<<"Deva", "Manushya">> :> 5) @@
    (<<"Deva", "Rakshasa">> :> 0) @@ (<<"Manushya", "Deva">> :> 5) @@
    (<<"Manushya", "Manushya">> :> 6) @@ (<<"Manushya", "Rakshasa">> :> 0) @@
    (<<"Rakshasa", "Deva">> :> 0) @@ (<<"Rakshasa", "Manushya">> :> 0) @@
    (<<"Rakshasa", "Rakshasa">> :> 6)

yoni_compatibility ==
    (<<"Horse", "Horse">> :> 4) @@ (<<"Elephant", "Elephant">> :> 4) @@
    (<<"Goat", "Goat">> :> 4) @@ (<<"Serpent", "Serpent">> :> 4) @@
    (<<"Dog", "Dog">> :> 4) @@ (<<"Cat", "Cat">> :> 4) @@
    (<<"Rat", "Rat">> :> 4) @@ (<<"Cow", "Cow">> :> 4) @@
    (<<"Buffalo", "Buffalo">> :> 4) @@ (<<"Tiger", "Tiger">> :> 4) @@
    (<<"Deer", "Deer">> :> 4) @@ (<<"Monkey", "Monkey">> :> 4) @@
    (<<"Mongoose", "Mongoose">> :> 4) @@ (<<"Lion", "Lion">> :> 4) @@
    (<<"Horse", "Elephant">> :> 3) @@ (<<"Goat", "Cow">> :> 3) @@
    (<<"Serpent", "Mongoose">> :> 0) @@ (<<"Dog", "Deer">> :> 2) @@
    (<<"Cat", "Rat">> :> 0) @@ (<<"Tiger", "Deer">> :> 0) @@
    (<<"Buffalo", "Tiger">> :> 3) @@ (<<"Monkey", "Lion">> :> 2)

\* The Nadi table with one entry above the koota's maximum.
nadi_compatibility_above_max ==
    (<<"Vata", "Vata">> :> 0) @@ (<<"Pitta", "Pitta">> :> 0) @@
    (<<"Kapha", "Kapha">> :> 0) @@ (<<"Vata", "Pitta">> :> 9) @@
    (<<"Vata", "Kapha">> :> 8) @@ (<<"Pitta", "Vata">> :> 8) @@
    (<<"Pitta", "Kapha">> :> 8) @@ (<<"Kapha", "Vata">> :> 8) @@
    (<<"Kapha", "Pitta">> :> 8)

nadi_compatibility ==
    (<<"Vata", "Vata">> :> 0) @@ (<<"Pitta", "Pitta">> :> 0) @@
    (<<"Kapha", "Kapha">> :> 0) @@ (<<"Vata", "Pitta">> :> 8) @@
    (<<"Vata", "Kapha">> :> 8) @@ (<<"Pitta", "Vata">> :> 8) @@
    (<<"Pitta", "Kapha">> :> 8) @@ (<<"Kapha", "Vata">> :> 8) @@
    (<<"Kapha", "Pitta">> :> 8)

\* keyed by the distance between the Moon signs
bhakoot_compatibility ==
    (1 :> 0) @@ (2 :> 0) @@ (3 :> 3) @@ (4 :> 1) @@ (5 :> 0) @@ (6 :> 0) @@
    (7 :> 7) @@ (8 :> 1) @@ (9 :> 3) @@ (10 :> 1) @@ (11 :> 3) @@ (12 :> 0)

\* calculate_nakshatra_from_moon: nakshatra_span = 13 + 20/60 degrees, that is
\* 800 minutes of arc; int() truncates toward zero; min(.., 27).
NakshatraSpanMinutes == 13 * 60 + 20

Trunc(num, den) == IF num >= 0 THEN num \div den ELSE -((-num) \div den)

\* The index without the + 1 of the 1-based numbering.
calculate_nakshatra_from_moon_zero_based(moon_longitude) ==
    Min(Trunc(moon_longitude * 60, NakshatraSpanMinutes * UnitsPerDegree), 27)

calculate_nakshatra_from_moon(moon_longitude) ==
    LET nakshatra_num ==
            Trunc(moon_longitude * 60, NakshatraSpanMinutes * UnitsPerDegree) + 1
    IN  Min(nakshatra_num, 27)

(***************************************************************************)
(* Classification and the eight kootas.  A fraction earned/max is passed   *)
(* as numerator and denominator; the thresholds 0.9, 0.75, 0.6, 0.4, 0.2   *)
(* are compared exactly (every quotient points/max that occurs is either   *)
(* equal to a threshold as a rational, and then equal to it as a double,   *)
(* or further from it than the rounding error).                            *)
(***************************************************************************)
get_compatibility_level_exclusive(num, den) ==
    IF num * 10 > 9 * den THEN "Excellent"
    ELSE IF num * 100 > 75 * den THEN "Very Good"
    ELSE IF num * 10 > 6 * den THEN "Good"
    ELSE IF num * 10 > 4 * den THEN "Average"
    ELSE IF num * 10 > 2 * den THEN "Below Average"
    ELSE "Poor"

get_compatibility_level(num, den) ==
    IF num * 10 >= 9 * den THEN "Excellent"
    ELSE IF num * 100 >= 75 * den THEN "Very Good"
    ELSE IF num * 10 >= 6 * den THEN "Good"
    ELSE IF num * 10 >= 4 * den THEN "Average"
    ELSE IF num * 10 >= 2 * den THEN "Below Average"
    ELSE "Poor"

\* _get_overall_compatibility_level: percentage = total_points / 36
get_overall_compatibility_level(total_points2) ==
    get_compatibility_level(total_points2, 2 * 36)

\* KootaScore(...): points_earned2 is twice points_earned; percentage is
\* (points / max_points) * 100 kept as an exact fraction; the description and
\* factors texts are left out.
KootaScore(koota_type, points2, max_points) ==
    [koota_type          |-> koota_type,
     points_earned2      |-> points2,
     max_points          |-> max_points,
     percentage          |-> [num |-> points2 * 100, den |-> 2 * max_points],
     compatibility_level |-> get_compatibility_level(points2, 2 * max_points)]

calculate_varna_koota(person1_moon_sign, person2_moon_sign) ==
    LET person1_varna == varna_system[person1_moon_sign]
        person2_varna == varna_system[person2_moon_sign]
        points == Get(varna_compatibility, <<person1_varna, person2_varna>>, 0)
    IN  KootaScore("Varna", 2 * points, 1)

\* Vashya looked up in the order (person 1, person 2) only.
calculate_vashya_koota_one_ordering(person1_moon_sign, person2_moon_sign) ==
    LET person1_vashya == vashya_system[person1_moon_sign]
        person2_vashya == vashya_system[person2_moon_sign]
        points == Get(vashya_compatibility, <<person1_vashya, person2_vashya>>, 0)
    IN  KootaScore("Vashya", 2 * points, 2)

calculate_vashya_koota(person1_moon_sign, person2_moon_sign) ==
    LET person1_vashya == vashya_system[person1_moon_sign]
        person2_vashya == vashya_system[person2_moon_sign]
        first  == Get(vashya_compatibility, <<person1_vashya, person2_vashya>>, 0)
        points == IF first = 0
                  THEN Get(vashya_compatibility, <<person2_vashya, person1_vashya>>, 0)
                  ELSE first
    IN  KootaScore("Vashya", 2 * points, 2)

\* The favorable set read off the even taras.
favorable_taras_even == {2, 4, 6, 8}

favorable_taras == {1, 3, 5, 7, 9}

\* Tara with both distances reduced to the cycle of nine taras.
calculate_tara_koota_cycle_of_nine(person1_nakshatra, person2_nakshatra) ==
    LET distance1 == (((person2_nakshatra - person1_nakshatra) % 27) % 9) + 1
        distance2 == (((person1_nakshatra - person2_nakshatra) % 27) % 9) + 1
        points2 == IF distance1 \in favorable_taras /\ distance2 \in favorable_taras
                   THEN 6
                   ELSE IF distance1 \in favorable_taras \/ distance2 \in favorable_taras
                   THEN 3
                   ELSE 0
    IN  KootaScore("Tara", points2, 3)

calculate_tara_koota(person1_nakshatra, person2_nakshatra) ==
    LET distance1 == ((person2_nakshatra - person1_nakshatra) % 27) + 1
        distance2 == ((person1_nakshatra - person2_nakshatra) % 27) + 1
        points2 == IF distance1 \in favorable_taras /\ distance2 \in favorable_taras
                   THEN 6
                   ELSE IF distance1 \in favorable_taras \/ distance2 \in favorable_taras
                   THEN 3
                   ELSE 0
    IN  KootaScore("Tara", points2, 3)

calculate_yoni_koota(person1_nakshatra, person2_nakshatra) ==
    LET person1_yoni == nakshatras[person1_nakshatra].yoni
        person2_yoni == nakshatras[person2_nakshatra].yoni
        first  == Get(yoni_compatibility, <<person1_yoni, person2_yoni>>, 0)
        second == IF first = 0
                  THEN Get(yoni_compatibility, <<person2_yoni, person1_yoni>>, 0)
                  ELSE first
        points == IF second = 0
                  THEN (IF person1_yoni = person2_yoni THEN 4 ELSE 2)
                  ELSE second
    IN  KootaScore("Yoni", 2 * points, 4)

sign_rulers ==
    ("Aries" :> "Mars") @@ ("Taurus" :> "Venus") @@ ("Gemini" :> "Mercury") @@
    ("Cancer" :> "Moon") @@ ("Leo" :> "Sun") @@ ("Virgo" :> "Mercury") @@
    ("Libra" :> "Venus") @@ ("Scorpio" :> "Mars") @@ ("Sagittarius" :> "Jupiter") @@
    ("Capricorn" :> "Saturn") @@ ("Aquarius" :> "Saturn") @@ ("Pisces" :> "Jupiter")

planet_friends ==
    ("Sun" :> {"Moon", "Mars", "Jupiter"}) @@
    ("Moon" :> {"Sun", "Mercury"}) @@
    ("Mars" :> {"Sun", "Moon", "Jupiter"}) @@
    ("Mercury" :> {"Sun", "Venus"}) @@
    ("Jupiter" :> {"Sun", "Moon", "Mars"}) @@
    ("Venus" :> {"Mercury", "Saturn"}) @@
    ("Saturn" :> {"Mercury", "Venus"})

calculate_grah_maitri_koota(person1_moon_sign, person2_moon_sign) ==
    LET person1_ruler == sign_rulers[person1_moon_sign]
        person2_ruler == sign_rulers[person2_moon_sign]
        points == IF person1_ruler = person2_ruler THEN 5
                  ELSE IF person2_ruler \in Get(planet_friends, person1_ruler, {}) THEN 4
                  ELSE IF person1_ruler \in Get(planet_friends, person2_ruler, {}) THEN 4
                  ELSE 1
    IN  KootaScore("Grah Maitri", 2 * points, 5)

calculate_gana_koota(person1_nakshatra, person2_nakshatra) ==
    LET person1_gana == nakshatras[person1_nakshatra].gana
        person2_gana == nakshatras[person2_nakshatra].gana
        points == Get(gana_compatibility, <<person1_gana, person2_gana>>, 0)
    IN  KootaScore("Gana", 2 * points, 6)

sign_numbers ==
    ("Aries" :> 1) @@ ("Taurus" :> 2) @@ ("Gemini" :> 3) @@ ("Cancer" :> 4) @@
    ("Leo" :> 5) @@ ("Virgo" :> 6) @@ ("Libra" :> 7) @@ ("Scorpio" :> 8) @@
    ("Sagittarius" :> 9) @@ ("Capricorn" :> 10) @@ ("Aquarius" :> 11) @@ ("Pisces" :> 12)

Abs(x) == IF x < 0 THEN -x ELSE x

\* distance = abs(n1 - n2); if distance > 6: distance = 12 - distance
bhakoot_distance(person1_moon_sign, person2_moon_sign) ==
    LET d == Abs(sign_numbers[person1_moon_sign] - sign_numbers[person2_moon_sign])
    IN  IF d > 6 THEN 12 - d ELSE d

calculate_bhakoot_koota(person1_moon_sign, person2_moon_sign) ==
    LET distance == bhakoot_distance(person1_moon_sign, person2_moon_sign)
        points == Get(bhakoot_compatibility, distance, 0)
    IN  KootaScore("Bhakoot", 2 * points, 7)

\* The Nadi koota scored by the nakshatra lords instead of the nadi classes.
calculate_nadi_koota_by_lord(person1_nakshatra, person2_nakshatra) ==
    LET person1_lord == nakshatras[person1_nakshatra].lord
        person2_lord == nakshatras[person2_nakshatra].lord
        points == IF person1_lord = person2_lord THEN 0 ELSE 8
    IN  KootaScore("Nadi", 2 * points, 8)

calculate_nadi_koota(person1_nakshatra, person2_nakshatra) ==
    LET person1_nadi == nakshatras[person1_nakshatra].nadi
        person2_nadi == nakshatras[person2_nakshatra].nadi
        points == Get(nadi_compatibility, <<person1_nadi, person2_nadi>>, 0)
    IN  KootaScore("Nadi", 2 * points, 8)

(***************************************************************************)
(* Doshas.  A chart is read here through its Moon (longitude, sign) and    *)
(* its Mars (house) records only; generate_birth_chart always puts both    *)
(* bodies in the chart, so the "Mars not found" return of                  *)
(* calculate_manglik_dosha and the ValueError of get_moon_planet never     *)
(* happen.                                                                 *)
(***************************************************************************)
manglik_houses == {1, 2, 4, 7, 8, 12}

calculate_manglik_dosha_no_second_house(birth_chart) ==
    LET mars_house == birth_chart.mars.house
        is_manglik == mars_house \in {1, 4, 7, 8, 12}
    IN  [is_manglik |-> is_manglik, mars_house |-> mars_house,
         severity |-> IF is_manglik THEN "High" ELSE "None"]

calculate_manglik_dosha(birth_chart) ==
    LET mars_house == birth_chart.mars.house
        is_manglik == mars_house \in manglik_houses
        severity == IF is_manglik
                    THEN (IF mars_house \in {1, 4, 7, 8, 12} THEN "High"
                          ELSE IF mars_house = 2 THEN "Medium"
                          ELSE "None")
                    ELSE "None"
    IN  [is_manglik |-> is_manglik, mars_house |-> mars_house, severity |-> severity]

\* max() of two str values compares them as text: "High" < "Medium" < "None".
StrRank(s) == CASE s = "High" -> 1 [] s = "Medium" -> 2 [] s = "None" -> 3

StrMax(a, b) == IF StrRank(b) > StrRank(a) THEN b ELSE a

\* calculate_doshas with no remedies to attach.
manglik_remedies_empty == <<>>

manglik_remedies ==
    <<"Perform Mangal Shanti Puja", "Recite Hanuman Chalisa daily",
      "Wear red coral gemstone", "Fast on Tuesdays", "Worship Lord Hanuman">>

nadi_remedies ==
    <<"Perform Nadi Dosha remedies", "Consult astrologer for specific remedies">>

\* Python's None
None == "null"

calculate_doshas(chart1, chart2) ==
    LET person1_manglik == calculate_manglik_dosha(chart1)
        person2_manglik == calculate_manglik_dosha(chart2)
        cancelled == person1_manglik.is_manglik /\ person2_manglik.is_manglik
        cancellation_reason ==
            IF cancelled THEN "Both persons are Manglik, dosha is cancelled" ELSE None
        remedies ==
            IF (person1_manglik.is_manglik \/ person2_manglik.is_manglik) /\ ~cancelled
            THEN manglik_remedies ELSE <<>>
        manglik_dosha ==
            [dosha_type |-> "Manglik",
             person1_affected |-> person1_manglik.is_manglik,
             person2_affected |-> person2_manglik.is_manglik,
             severity |-> StrMax(person1_manglik.severity, person2_manglik.severity),
             cancelled |-> cancelled,
             cancellation_reason |-> cancellation_reason,
             remedies |-> remedies]
        person1_nakshatra == calculate_nakshatra_from_moon(chart1.moon.longitude)
        person2_nakshatra == calculate_nakshatra_from_moon(chart2.moon.longitude)
        person1_nadi == nakshatras[person1_nakshatra].nadi
        person2_nadi == nakshatras[person2_nakshatra].nadi
        nadi_dosha_present == person1_nadi = person2_nadi
        nadi_dosha ==
            [dosha_type |-> "Nadi",
             person1_affected |-> nadi_dosha_present,
             person2_affected |-> nadi_dosha_present,
             severity |-> IF nadi_dosha_present THEN "High" ELSE "None",
             cancelled |-> FALSE,
             cancellation_reason |-> None,
             remedies |-> IF nadi_dosha_present THEN nadi_remedies ELSE <<>>]
    IN  <<manglik_dosha, nadi_dosha>>

(***************************************************************************)
(* calculate_compatibility_match, after the two charts are generated.      *)
(***************************************************************************)
\* What generate_birth_chart stores for the two bodies the matching reads:
\* the Moon's sign is get_zodiac_sign(longitude), the house of Mars is 1..12.
PersonChart(moon_longitude, mars_house) ==
    [moon |-> [longitude |-> moon_longitude, sign |-> get_zodiac_sign(moon_longitude)],
     mars |-> [house |-> mars_house]]

RECURSIVE SumPoints2(_, _)
SumPoints2(koota_scores, n) ==
    IF n = 0 THEN 0
    ELSE SumPoints2(koota_scores, n - 1) + koota_scores[n].points_earned2

\* total_percentage = (total_points / 36) * 100, kept as an exact fraction.
total_percentage(total_points2) == [num |-> total_points2 * 100, den |-> 2 * 36]

\* The body of calculate_compatibility_match once the two charts are there
\* (match_summary and recommendations, texts derived from the result, are
\* left out).
CompatibilityMatchResponse(chart1, chart2) ==
    LET person1_moon == chart1.moon
        person2_moon == chart2.moon
        person1_nakshatra == calculate_nakshatra_from_moon(person1_moon.longitude)
        person2_nakshatra == calculate_nakshatra_from_moon(person2_moon.longitude)
        koota_scores ==
            << calculate_varna_koota(person1_moon.sign, person2_moon.sign),
               calculate_vashya_koota(person1_moon.sign, person2_moon.sign),
               calculate_tara_koota(person1_nakshatra, person2_nakshatra),
               calculate_yoni_koota(person1_nakshatra, person2_nakshatra),
               calculate_grah_maitri_koota(person1_moon.sign, person2_moon.sign),
               calculate_gana_koota(person1_nakshatra, person2_nakshatra),
               calculate_bhakoot_koota(person1_moon.sign, person2_moon.sign),
               calculate_nadi_koota(person1_nakshatra, person2_nakshatra) >>
        total_points2 == SumPoints2(koota_scores, Len(koota_scores))
    IN  [total_points2       |-> total_points2,
         total_percentage    |-> total_percentage(total_points2),
         compatibility_level |-> get_overall_compatibility_level(total_points2),
         koota_scores        |-> koota_scores,
         doshas              |-> calculate_doshas(chart1, chart2)]

(***************************************************************************)
(* Dates, clock times and time zones.  A birth_date "YYYY-MM-DD" is the    *)
(* triple of its three numbers and a birth_time "HH:MM" the pair of its    *)
(* two; instants and Julian days are counted in half hours (ticks), which  *)
(* every clock time and every zone offset used here is a multiple of.      *)
(***************************************************************************)
IsLeapYear(y) == (y % 4 = 0 /\ y % 100 # 0) \/ y % 400 = 0

DaysInMonth(y, m) ==
    IF m = 2 THEN (IF IsLeapYear(y) THEN 29 ELSE 28)
    ELSE IF m \in {4, 6, 9, 11} THEN 30 ELSE 31

\* datetime.strptime(birth_date, '%Y-%m-%d') raises ValueError
strptime_date_fails(birth_date) ==
    ~ /\ birth_date[1] \in 1 .. 9999
      /\ birth_date[2] \in 1 .. 12
      /\ birth_date[3] \in 1 .. DaysInMonth(birth_date[1], birth_date[2])

strptime_date(birth_date) ==
    [year |-> birth_date[1], month |-> birth_date[2], day |-> birth_date[3]]

\* datetime.strptime(birth_time, '%H:%M') raises ValueError
strptime_time_fails(birth_time) ==
    ~ (birth_time[1] \in 0 .. 23 /\ birth_time[2] \in 0 .. 59)

strptime_time(birth_time) == [hour |-> birth_time[1], minute |-> birth_time[2]]

\* The day number of a Gregorian calendar date (noon), as swe.julday counts.
JulianDayNumber(y, m, d) ==
    LET a == Trunc(m - 14, 12)
    IN  Trunc(1461 * (y + 4800 + a), 4) + Trunc(367 * (m - 2 - 12 * a), 12)
          - Trunc(3 * Trunc(y + 4900 + a, 100), 4) + d - 32075

MinutesPerTick == 60 \div 2

TicksPerDay == (24 * 60) \div MinutesPerTick

\* swe.julday(year, month, day, hour + minute / 60.0), in ticks
swe_julday(date, time) ==
    JulianDayNumber(date.year, date.month, date.day) * TicksPerDay
        - (TicksPerDay \div 2) + (time.hour * 60 + time.minute) \div MinutesPerTick

\* The tz database as pytz reads it for the year 2020: the offsets from UTC
\* in minutes, and for a zone with daylight time (dst > 0) the wall-clock
\* instants, on the clock being left, at which it starts and ends.
pytz_all_timezones ==
    ("UTC" :> [utcoffset |-> 0, dst |-> 0]) @@
    ("Asia/Kolkata" :> [utcoffset |-> 5 * 60 + 30, dst |-> 0]) @@
    ("America/New_York" :>
        [utcoffset |-> -5 * 60, dst |-> 60,
         start |-> [date |-> [year |-> 2020, month |-> 3, day |-> 8],
                    time |-> [hour |-> 2, minute |-> 0]],
         end   |-> [date |-> [year |-> 2020, month |-> 11, day |-> 1],
                    time |-> [hour |-> 2, minute |-> 0]]])

\* pytz.timezone(name) that never raises: an unknown name reads as UTC.
pytz_timezone_lenient(name) ==
    IF name \in DOMAIN pytz_all_timezones THEN name ELSE "UTC"

\* pytz.timezone(name): the zone, or UnknownTimeZoneError
pytz_timezone(name) ==
    IF name \in DOMAIN pytz_all_timezones THEN name ELSE "UnknownTimeZoneError"

\* The wall-clock hour that daylight time skips (NonExistent) and the one
\* that the return to standard time repeats (Ambiguous).
NonExistent(tz, date, time) ==
    LET zone == pytz_all_timezones[tz]
        wall == swe_julday(date, time)
    IN  /\ zone.dst > 0
        /\ wall >= swe_julday(zone.start.date, zone.start.time)
        /\ wall < swe_julday(zone.start.date, zone.start.time)
                    + zone.dst \div MinutesPerTick

Ambiguous(tz, date, time) ==
    LET zone == pytz_all_timezones[tz]
        wall == swe_julday(date, time)
    IN  /\ zone.dst > 0
        /\ wall >= swe_julday(zone.end.date, zone.end.time)
                    - zone.dst \div MinutesPerTick
        /\ wall < swe_julday(zone.end.date, zone.end.time)

\* tz.localize(dt, is_dst), is_dst one of "True", "False", "None": the offset
\* from UTC of the wall-clock time, in ticks.  is_dst=None refuses to guess
\* and raises; True and False pick the daylight and the standard reading of
\* a skipped or repeated time and never raise.
localize(tz, date, time, is_dst) ==
    LET zone == pytz_all_timezones[tz]
        wall == swe_julday(date, time)
        daylight == /\ zone.dst > 0
                    /\ wall >= swe_julday(zone.start.date, zone.start.time)
                                + zone.dst \div MinutesPerTick
                    /\ wall < swe_julday(zone.end.date, zone.end.time)
                                - zone.dst \div MinutesPerTick
        standard == [raised |-> "None", utcoffset |-> zone.utcoffset \div MinutesPerTick]
        summer   == [raised |-> "None",
                     utcoffset |-> (zone.utcoffset + zone.dst) \div MinutesPerTick]
    IN  IF NonExistent(tz, date, time) \/ Ambiguous(tz, date, time)
        THEN (IF is_dst = "None"
              THEN [raised |-> IF NonExistent(tz, date, time)
                               THEN "NonExistentTimeError" ELSE "AmbiguousTimeError",
                    utcoffset |-> 0]
              ELSE IF is_dst = "True" THEN summer ELSE standard)
        ELSE IF daylight THEN summer ELSE standard

\* def localize(self, dt, is_dst=False)
localize_default_is_dst == "False"

\* The try / except around tz.localize in both Julian day functions.
localize_handling_dst(tz, date, time) ==
    LET first == localize(tz, date, time, localize_default_is_dst)
    IN  IF first.raised = "AmbiguousTimeError"
        THEN [localize(tz, date, time, "False") EXCEPT !.raised = "AmbiguousTimeError"]
        ELSE IF first.raised = "NonExistentTimeError"
        THEN [localize(tz, date, time, "True") EXCEPT !.raised = "NonExistentTimeError"]
        ELSE first

\* if timezone_str: None and the empty string are false
Truthy(timezone_str) == timezone_str # None /\ timezone_str # ""

\* BirthChartService.calculate_julian_day: the Julian day in ticks, or the
\* exception that leaves the function.
julian_day_of(birth_date, birth_time, timezone_str) ==
    IF strptime_date_fails(birth_date) \/ strptime_time_fails(birth_time)
    THEN [raised |-> "ValueError", message |-> "strptime", julian_day |-> 0]
    ELSE LET date == strptime_date(birth_date)
             time == strptime_time(birth_time)
         IN  IF Truthy(timezone_str)
             THEN IF pytz_timezone(timezone_str) = "UnknownTimeZoneError"
                  THEN [raised |-> "ValueError", message |-> "Invalid timezone",
                        julian_day |-> 0]
                  ELSE [raised |-> "None", message |-> "",
                        julian_day |->
                            swe_julday(date, time)
                              - localize_handling_dst(pytz_timezone(timezone_str),
                                                      date, time).utcoffset]
             ELSE [raised |-> "None", message |-> "",
                   julian_day |-> swe_julday(date, time)]

\* AccuracyFixes.calculate_accurate_julian_day: the result dictionary.
calculate_accurate_julian_day(birth_date, birth_time, timezone_str) ==
    IF strptime_date_fails(birth_date) \/ strptime_time_fails(birth_time)
    THEN [success |-> FALSE, julian_day |-> 0, warnings |-> <<>>]
    ELSE LET date == strptime_date(birth_date)
             time == strptime_time(birth_time)
         IN  IF Truthy(timezone_str)
             THEN IF pytz_timezone(timezone_str) = "UnknownTimeZoneError"
                  THEN [success |-> FALSE, julian_day |-> 0, warnings |-> <<>>]
                  ELSE LET dt_local == localize_handling_dst(pytz_timezone(timezone_str),
                                                             date, time)
                       IN  [success |-> TRUE,
                            julian_day |-> swe_julday(date, time) - dt_local.utcoffset,
                            warnings |->
                               <<CASE dt_local.raised = "AmbiguousTimeError" ->
                                        "DST ambiguity resolved to standard time"
                                   [] dt_local.raised = "NonExistentTimeError" ->
                                        "DST gap resolved to daylight time"
                                   [] OTHER -> "Timezone conversion successful">>]
             ELSE [success |-> TRUE, julian_day |-> swe_julday(date, time),
                   warnings |-> <<"No timezone specified, assuming UTC">>]

\* BirthChartService._validate_birth_data: the errors list, one record per
\* append, in the order of the checks.
validate_birth_data(birth_date, birth_time, latitude, longitude, timezone_str) ==
    (IF strptime_date_fails(birth_date)
     THEN <<[field |-> "birth_date", error |-> "Invalid date format"]>>
     ELSE IF strptime_date(birth_date).year < 1900 \/ strptime_date(birth_date).year > 2100
     THEN <<[field |-> "birth_date", error |-> "Birth year is outside optimal range"]>>
     ELSE <<>>)
    \o (IF strptime_time_fails(birth_time)
        THEN <<[field |-> "birth_time", error |-> "Invalid time format"]>> ELSE <<>>)
    \o (IF ~(-90 <= latitude /\ latitude <= 90)
        THEN <<[field |-> "latitude", error |-> "Invalid latitude"]>> ELSE <<>>)
    \o (IF ~(-180 <= longitude /\ longitude <= 180)
        THEN <<[field |-> "longitude", error |-> "Invalid longitude"]>> ELSE <<>>)
    \o (IF Truthy(timezone_str) /\ pytz_timezone(timezone_str) = "UnknownTimeZoneError"
        THEN <<[field |-> "timezone", error |-> "Invalid timezone"]>> ELSE <<>>)

(***************************************************************************)
(* generate_birth_chart: the tables and the external Swiss Ephemeris.      *)
(***************************************************************************)
\* class Planet, in declaration order (the order calculate_planet_positions
\* iterates in)
Planet ==
    <<"SUN", "MOON", "MERCURY", "VENUS", "MARS", "JUPITER", "SATURN", "URANUS",
      "NEPTUNE", "PLUTO", "RAHU", "KETU", "ASCENDANT">>

PLANET_CONSTANTS ==
    ("SUN" :> "swe.SUN") @@ ("MOON" :> "swe.MOON") @@ ("MERCURY" :> "swe.MERCURY") @@
    ("VENUS" :> "swe.VENUS") @@ ("MARS" :> "swe.MARS") @@ ("JUPITER" :> "swe.JUPITER") @@
    ("SATURN" :> "swe.SATURN") @@ ("URANUS" :> "swe.URANUS") @@
    ("NEPTUNE" :> "swe.NEPTUNE") @@ ("PLUTO" :> "swe.PLUTO") @@
    ("RAHU" :> "swe.TRUE_NODE")

HOUSE_SYSTEMS ==
    ("Placidus" :> "P") @@ ("Koch" :> "K") @@ ("Equal" :> "E") @@ ("Whole Sign" :> "W")

AYANAMSA_CONSTANTS ==
    ("Lahiri" :> "SIDM_LAHIRI") @@ ("Raman" :> "SIDM_RAMAN") @@
    ("Krishnamurti" :> "SIDM_KRISHNAMURTI") @@ ("Djwhal Khul" :> "SIDM_DJWHAL_KHUL") @@
    ("Yukteshwar" :> "SIDM_YUKTESHWAR") @@ ("J.N. Bhasin" :> "SIDM_JN_BHASIN") @@
    ("Babylonian/Kugler 1" :> "SIDM_BABYL_KUGLER1") @@
    ("Babylonian/Kugler 2" :> "SIDM_BABYL_KUGLER2") @@
    ("Babylonian/Kugler 3" :> "SIDM_BABYL_KUGLER3") @@
    ("Babylonian/Huber" :> "SIDM_BABYL_HUBER") @@
    ("Babylonian/Mercier" :> "SIDM_BABYL_ETPSC") @@
    ("Aldebaran at 15 Tau" :> "SIDM_ALDEBARAN_15TAU") @@
    ("Hipparchos" :> "SIDM_HIPPARCHOS") @@ ("Sassanian" :> "SIDM_SASSANIAN") @@
    ("Galactic Center in 0 Sag" :> "SIDM_GALCENT_0SAG") @@
    ("J2000" :> "SIDM_J2000") @@ ("J1900" :> "SIDM_J1900") @@ ("B1950" :> "SIDM_B1950")

HOUSE_RULERS ==
    ("Aries" :> "MARS") @@ ("Taurus" :> "VENUS") @@ ("Gemini" :> "MERCURY") @@
    ("Cancer" :> "MOON") @@ ("Leo" :> "SUN") @@ ("Virgo" :> "MERCURY") @@
    ("Libra" :> "VENUS") @@ ("Scorpio" :> "MARS") @@ ("Sagittarius" :> "JUPITER") @@
    ("Capricorn" :> "SATURN") @@ ("Aquarius" :> "SATURN") @@ ("Pisces" :> "JUPITER")

\* Minutes of arc to grid units, rounded toward minus infinity.
ArcMin(m) == (m * UnitsPerDegree) \div 60

\* swe.get_ayanamsa under the active mode: the offset of each sidereal frame
\* at the start of 1980, in minutes of arc, drifting by 5 minutes in 6 years.
\* The epoch frame J2000 is negative before its epoch.
sidereal_offset_minutes ==
    ("SIDM_LAHIRI" :> 23 * 60 + 35) @@ ("SIDM_RAMAN" :> 22 * 60 + 8) @@
    ("SIDM_KRISHNAMURTI" :> 23 * 60 + 29) @@ ("SIDM_DJWHAL_KHUL" :> 28 * 60 + 5) @@
    ("SIDM_YUKTESHWAR" :> 22 * 60 + 12) @@ ("SIDM_JN_BHASIN" :> 22 * 60 + 29) @@
    ("SIDM_BABYL_KUGLER1" :> 24 * 60 + 36) @@ ("SIDM_BABYL_KUGLER2" :> 25 * 60 + 36) @@
    ("SIDM_BABYL_KUGLER3" :> 26 * 60 + 30) @@ ("SIDM_BABYL_HUBER" :> 25 * 60 + 18) @@
    ("SIDM_BABYL_ETPSC" :> 24 * 60 + 48) @@ ("SIDM_ALDEBARAN_15TAU" :> 24 * 60 + 30) @@
    ("SIDM_HIPPARCHOS" :> 20 * 60) @@ ("SIDM_SASSANIAN" :> 19 * 60 + 42) @@
    ("SIDM_GALCENT_0SAG" :> 26 * 60 + 36) @@ ("SIDM_J2000" :> -17) @@
    ("SIDM_J1900" :> 60 + 7) @@ ("SIDM_B1950" :> 25)

AyanamsaEpoch == swe_julday([year |-> 1980, month |-> 1, day |-> 1],
                            [hour |-> 12, minute |-> 0])

swe_get_ayanamsa(jd, mode) ==
    ArcMin(sidereal_offset_minutes[mode]
             + ((jd - AyanamsaEpoch) * 5) \div (6 * 365 * TicksPerDay))

\* swe.calc_ut: a deterministic function of the Julian day and the body.  The
\* stand-in sky starts each body one grid step short of its epoch longitude
\* (degrees) and moves it by its rate (grid units per day); on every turn-th
\* day (turn > 0) the reported speed has the sign opposite to the rate (a
\* station: planets turn retrograde, the true node turns direct).
Sky ==
    ("swe.SUN"       :> [epoch |-> 280, rate |-> 31,  turn |-> 0, distance |-> 1]) @@
    ("swe.MOON"      :> [epoch |-> 12,  rate |-> 397, turn |-> 0, distance |-> 1]) @@
    ("swe.MERCURY"   :> [epoch |-> 265, rate |-> 43,  turn |-> 3, distance |-> 1]) @@
    ("swe.VENUS"     :> [epoch |-> 310, rate |-> 37,  turn |-> 7, distance |-> 1]) @@
    ("swe.MARS"      :> [epoch |-> 100, rate |-> 89,  turn |-> 5, distance |-> 2]) @@
    ("swe.JUPITER"   :> [epoch |-> 360, rate |-> 0,   turn |-> 0, distance |-> 5]) @@
    ("swe.SATURN"    :> [epoch |-> 180, rate |-> 1,   turn |-> 3, distance |-> 9]) @@
    ("swe.URANUS"    :> [epoch |-> 240, rate |-> 1,   turn |-> 2, distance |-> 19]) @@
    ("swe.NEPTUNE"   :> [epoch |-> 270, rate |-> 1,   turn |-> 2, distance |-> 30]) @@
    ("swe.PLUTO"     :> [epoch |-> 200, rate |-> 1,   turn |-> 2, distance |-> 39]) @@
    ("swe.TRUE_NODE" :> [epoch |-> 3,   rate |-> -5,  turn |-> 3, distance |-> 1])

swe_calc_ut(jd, planet_id) ==
    LET body == Sky[planet_id]
        day == jd \div TicksPerDay
        turned == body.turn > 0 /\ day % body.turn = 0
    IN  [longitude |-> (Deg(body.epoch) - 1 + day * body.rate) % Circle,
         latitude  |-> ((day + body.epoch) % 5) - 2,
         distance  |-> body.distance,
         speed     |-> IF turned THEN -body.rate ELSE body.rate]

\* swe.houses: the 12 tropical cusps for the Julian day and the house system
\* (the birth place is taken into the stand-in's choice of widths).  The
\* ascendant takes seven places, one a day; Whole Sign starts on its sign.
house_widths ==
    ("P" :> <<20, 30, 40, 40, 30, 20>>) @@ ("K" :> <<40, 35, 15, 15, 35, 40>>) @@
    ("E" :> <<30, 30, 30, 30, 30, 30>>) @@ ("W" :> <<30, 30, 30, 30, 30, 30>>) @@
    ("C" :> <<25, 30, 35, 35, 30, 25>>) @@ ("R" :> <<35, 30, 25, 25, 30, 35>>)

RECURSIVE CuspAt(_, _, _)
CuspAt(k, asc, widths) ==
    IF k = 1 THEN asc
    ELSE (CuspAt(k - 1, asc, widths) + Deg(widths[((k - 2) % 6) + 1])) % Circle

\* The 12 cusp longitudes of a chart whose first cusp is asc.
CuspsFrom(asc, widths) == [k \in 1 .. 12 |-> CuspAt(k, asc, widths)]

\* swe.houses(...)[1]: the ascendant and, a quarter circle before it, the
\* midheaven
swe_houses_ascmc(jd) ==
    LET ascendant == (Circle - 1 + ((jd \div TicksPerDay) % 7) * 131) % Circle
    IN  <<ascendant, (ascendant + Deg(270)) % Circle>>

\* A query of the ephemeris answers, or raises swe.Error (a body or a date
\* outside the ephemeris files, a latitude no house system can serve).
swe_replies == {"ok", "swe.Error"}

\* The log entries of one query and its reply
Logged(query, reply) == IF reply = "ok" THEN <<query>> ELSE <<query, reply>>

\* swe.calc_ut(jd, planet_id, flags)[1]: the flags of the computation done,
\* which are the flags asked for
swe_calc_ut_retflags(flags) == flags

swe_houses(jd, system_char) ==
    LET ascendant == swe_houses_ascmc(jd)[1]
        first == IF system_char = "W" THEN ascendant - (ascendant % Deg(30))
                 ELSE ascendant
    IN  CuspsFrom(first, house_widths[system_char])

(***************************************************************************)
(* generate_birth_chart: the chart's records.                              *)
(***************************************************************************)
House(number, cusp) ==
    [number |-> number, cusp |-> cusp, sign |-> get_zodiac_sign(cusp),
     ruler |-> HOUSE_RULERS[get_zodiac_sign(cusp)]]

PlanetPosition(planet_enum, longitude, latitude, distance, speed, retrograde, house_cusps) ==
    [planet |-> planet_enum, longitude |-> longitude, latitude |-> latitude,
     distance |-> distance, speed |-> speed,
     sign |-> get_zodiac_sign(longitude),
     degree |-> get_degree_in_sign(longitude),
     house |-> get_house_number(longitude, house_cusps),
     retrograde |-> retrograde]

\* What the Ketu branch would build if it copied Rahu's placement.
KetuPosition_rahu_placement(longitude, latitude, distance, speed_val, house_cusps) ==
    [PlanetPosition("KETU", longitude, -latitude, distance, -speed_val,
                    speed_val < 0, house_cusps)
        EXCEPT !.longitude = (longitude + Deg(180)) % Circle]

\* A Ketu branch that leaves Ketu on Rahu's longitude.
KetuPosition_at_rahu(longitude, latitude, distance, speed_val, house_cusps) ==
    PlanetPosition("KETU", longitude, -latitude, distance, -speed_val,
                   speed_val < 0, house_cusps)

\* The Ketu branch of calculate_planet_positions, from Rahu's corrected
\* longitude and Rahu's ephemeris values.
KetuPosition(longitude, latitude, distance, speed_val, house_cusps) ==
    LET ketu_longitude == (longitude + Deg(180)) % Circle
    IN  PlanetPosition("KETU", ketu_longitude, -latitude, distance, -speed_val,
                       speed_val < 0, house_cusps)

\* An aspect table whose semisextile orb reaches into its neighbours.
ASPECTS_wide_semisextile ==
    <<<<"Conjunction", 0, 8>>, <<"Sextile", 60, 6>>, <<"Square", 90, 8>>,
      <<"Trine", 120, 8>>, <<"Opposition", 180, 8>>, <<"Quincunx", 150, 3>>,
      <<"Semisextile", 30, 25>>, <<"Semisquare", 45, 2>>,
      <<"Sesquiquadrate", 135, 2>>>>

ASPECTS ==
    <<<<"Conjunction", 0, 8>>, <<"Sextile", 60, 6>>, <<"Square", 90, 8>>,
      <<"Trine", 120, 8>>, <<"Opposition", 180, 8>>, <<"Quincunx", 150, 3>>,
      <<"Semisextile", 30, 2>>, <<"Semisquare", 45, 2>>,
      <<"Sesquiquadrate", 135, 2>>>>

\* The angle between two longitudes without the fold at 180 degrees.
aspect_angle_unfolded(longitude1, longitude2) == Abs(longitude1 - longitude2)

\* The angle between two longitudes, as calculate_aspects folds it.
aspect_angle(longitude1, longitude2) ==
    LET angle == Abs(longitude1 - longitude2)
    IN  IF angle > Deg(180) THEN Circle - angle ELSE angle

\* The inner loop over ASPECTS from entry k: the first entry whose orb holds
\* the angle, as a one-element list, or the empty list.
RECURSIVE FirstAspect(_, _, _)
FirstAspect(k, planet1, planet2) ==
    IF k > Len(ASPECTS) THEN <<>>
    ELSE LET angle == aspect_angle(planet1.longitude, planet2.longitude)
             orb_diff == Abs(angle - Deg(ASPECTS[k][2]))
         IN  IF orb_diff <= Deg(ASPECTS[k][3])
             THEN <<[planet1 |-> planet1.planet, planet2 |-> planet2.planet,
                     aspect_type |-> ASPECTS[k][1], angle |-> angle,
                     orb |-> orb_diff, applying |-> planet1.speed > planet2.speed]>>
             ELSE FirstAspect(k + 1, planet1, planet2)

\* The two loops of calculate_aspects from the pair (i, j), i < j.
RECURSIVE AspectsFrom(_, _, _)
AspectsFrom(i, j, planet_list) ==
    IF i > Len(planet_list) THEN <<>>
    ELSE IF j > Len(planet_list) THEN AspectsFrom(i + 1, i + 2, planet_list)
    ELSE FirstAspect(1, planet_list[i], planet_list[j])
            \o AspectsFrom(i, j + 1, planet_list)

calculate_aspects(planet_list) == AspectsFrom(1, 2, planet_list)

\* max(counts, key=counts.get) over a dict filled in list order: the key of
\* the first list element whose count is the largest.
Count(planet_list, field, key) ==
    Cardinality({i \in 1 .. Len(planet_list) : planet_list[i][field] = key})

\* A dominant key that breaks ties by the last list element.
Dominant_last_maximum(planet_list, field) ==
    IF planet_list = <<>> THEN None
    ELSE LET n == Len(planet_list)
             count(i) == Count(planet_list, field, planet_list[i][field])
             last == CHOOSE i \in 1 .. n :
                         /\ \A k \in 1 .. n : count(k) <= count(i)
                         /\ \A k \in (i + 1) .. n : count(k) < count(i)
         IN  planet_list[last][field]

Dominant(planet_list, field) ==
    IF planet_list = <<>> THEN None
    ELSE LET n == Len(planet_list)
             count(i) == Count(planet_list, field, planet_list[i][field])
             first == CHOOSE i \in 1 .. n :
                         /\ \A k \in 1 .. n : count(k) <= count(i)
                         /\ \A k \in 1 .. (i - 1) : count(k) < count(i)
         IN  planet_list[first][field]

SignOf(planet_list, planet_enum) ==
    IF \E i \in 1 .. Len(planet_list) : planet_list[i].planet = planet_enum
    THEN LET first == CHOOSE i \in 1 .. Len(planet_list) :
                         /\ planet_list[i].planet = planet_enum
                         /\ \A k \in 1 .. (i - 1) : planet_list[k].planet # planet_enum
         IN  planet_list[first].sign
    ELSE None

generate_chart_summary(planet_list, house_list) ==
    [dominant_sign |-> Dominant(planet_list, "sign"),
     dominant_house |-> Dominant(planet_list, "house"),
     retrograde_planets |->
        Cardinality({i \in 1 .. Len(planet_list) : planet_list[i].retrograde}),
     planets_by_sign |->
        [sg \in {planet_list[i].sign : i \in 1 .. Len(planet_list)} |->
            Count(planet_list, "sign", sg)],
     planets_by_house |->
        [h \in {planet_list[i].house : i \in 1 .. Len(planet_list)} |->
            Count(planet_list, "house", h)],
     sun_sign |-> SignOf(planet_list, "SUN"),
     moon_sign |-> SignOf(planet_list, "MOON"),
     ascendant_sign |-> IF house_list # <<>> THEN house_list[1].sign ELSE None]

(***************************************************************************)
(* The inputs tried.                                                       *)
(***************************************************************************)
\* Every AscStep-th unit of the circle is tried as the first cusp.
AscStep == 53

Ascendants == {a \in Longitudes : a % AscStep = 0}

\* Widths, in degrees, of houses 1..6; houses 7..12 mirror them, as in the
\* quadrant house systems (Placidus, Koch) and in the equal systems.
HouseWidthPatterns ==
    { <<30, 30, 30, 30, 30, 30>>,
      <<20, 30, 40, 40, 30, 20>>,
      <<40, 35, 15, 15, 35, 40>>,
      <<11, 19, 60, 58, 22, 10>> }

WellFormedCusps ==
    {CuspsFrom(asc, widths) : asc \in Ascendants, widths \in HouseWidthPatterns}

\* What swe.get_ayanamsa returns for the supported systems between 1900 and
\* 2100: about -1.4 .. +2.8 degrees for the epoch systems (J2000, J1900,
\* B1950: negative before the epoch) and about 19 .. 30 degrees for the others.
AyanamsaValues == (Deg(-2) .. Deg(3)) \cup (Deg(19) .. Deg(30))

\* The Moon longitudes tried in a match: the first grid point of every sign
\* and of every nakshatra, hence one in each of the 36 (sign, nakshatra) cells.
CeilDiv(a, b) == (a + b - 1) \div b

SignStarts == {Deg(30) * k : k \in 0 .. 11}

NakshatraStarts == {CeilDiv(k * Circle, 27) : k \in 0 .. 26}

MoonLongitudes == SignStarts \cup NakshatraStarts

PersonCharts == {PersonChart(l, h) : l \in MoonLongitudes, h \in 1 .. 12}

(***************************************************************************)
(* SpecCalls: the pure functions, each applied once to arguments drawn     *)
(* from the sets above.                                                    *)
(***************************************************************************)
HouseCalls ==
    [fn : {"get_house_number"}, longitude : Longitudes, house_cusps : WellFormedCusps]

AyanamsaCalls ==
    [fn : {"apply_ayanamsa_correction"}, longitude : Longitudes,
     ayanamsa_value : AyanamsaValues]

NakshatraCalls ==
    [fn : {"calculate_nakshatra_from_moon"}, moon_longitude : Longitudes]

ManglikCalls ==
    [fn : {"calculate_manglik_dosha"}, birth_chart : PersonCharts]

\* percentage = num / den
LevelCalls ==
    [fn : {"get_compatibility_level"}, num : 0 .. 100, den : {100}]

MatchIdle == person1_chart = None /\ person2_chart = None /\ response = None

CallsIdle == call = None /\ ret = <<>>

ChartIdle ==
    /\ request = None /\ julian_day = None /\ sid_mode = None
    /\ ayanamsa_value = None /\ houses = <<>> /\ planet_index = 0
    /\ planets = <<>> /\ queries = <<>> /\ swe_calls = <<>> /\ chart = None

InitCalls ==
    /\ pc = "call"
    /\ call \in HouseCalls \cup AyanamsaCalls \cup NakshatraCalls \cup ManglikCalls
    /\ ret = <<>>
    /\ MatchIdle
    /\ ChartIdle

Return(value) ==
    /\ ret' = <<value>>
    /\ pc' = "return"
    /\ UNCHANGED <<call, matchVars, chartVars>>

Call_get_house_number ==
    /\ pc = "call"
    /\ call.fn = "get_house_number"
    /\ Return(get_house_number(call.longitude, call.house_cusps))

Call_apply_ayanamsa_correction ==
    /\ pc = "call"
    /\ call.fn = "apply_ayanamsa_correction"
    /\ Return(apply_ayanamsa_correction(call.longitude, call.ayanamsa_value))

Call_calculate_nakshatra_from_moon ==
    /\ pc = "call"
    /\ call.fn = "calculate_nakshatra_from_moon"
    /\ Return(calculate_nakshatra_from_moon(call.moon_longitude))

Call_calculate_manglik_dosha ==
    /\ pc = "call"
    /\ call.fn = "calculate_manglik_dosha"
    /\ Return(calculate_manglik_dosha(call.birth_chart))

Call_get_compatibility_level ==
    /\ pc = "call"
    /\ call.fn = "get_compatibility_level"
    /\ Return(get_compatibility_level(call.num, call.den))

NextCalls ==
    \/ Call_get_house_number
    \/ Call_apply_ayanamsa_correction
    \/ Call_calculate_nakshatra_from_moon
    \/ Call_calculate_manglik_dosha

SpecCalls == InitCalls /\ [][NextCalls]_vars

Returned(fn) == pc = "return" /\ call.fn = fn

(***************************************************************************)
(* SpecMatch: one call of calculate_compatibility_match.                   *)
(***************************************************************************)
InitMatch ==
    /\ pc = "request"
    /\ MatchIdle
    /\ CallsIdle
    /\ ChartIdle

calculate_compatibility_match ==
    /\ pc = "request"
    /\ \E chart1 \in PersonCharts, chart2 \in PersonCharts :
        /\ person1_chart' = chart1
        /\ person2_chart' = chart2
        /\ response' = CompatibilityMatchResponse(chart1, chart2)
    /\ pc' = "matched"
    /\ UNCHANGED <<callVars, chartVars>>

NextMatch == calculate_compatibility_match

SpecMatch == InitMatch /\ [][NextMatch]_vars

Matched == pc = "matched"

(***************************************************************************)
(* SpecLevels: a match, or one call of _get_compatibility_level on a       *)
(* percentage of its own.                                                  *)
(***************************************************************************)
InitLevels ==
    \/ InitMatch
    \/ /\ pc = "call"
       /\ call \in LevelCalls
       /\ ret = <<>>
       /\ MatchIdle
       /\ ChartIdle

NextLevels ==
    \/ calculate_compatibility_match
    \/ Call_get_compatibility_level

SpecLevels == InitLevels /\ [][NextLevels]_vars

(***************************************************************************)
(* SpecKootas: the kootas that read the two nakshatra numbers, each        *)
(* applied once to a pair of keys of the nakshatra table.                  *)
(***************************************************************************)
YoniCalls ==
    [fn : {"calculate_yoni_koota"}, person1_nakshatra : DOMAIN nakshatras,
     person2_nakshatra : DOMAIN nakshatras]

TaraCalls ==
    [fn : {"calculate_tara_koota"}, person1_nakshatra : DOMAIN nakshatras,
     person2_nakshatra : DOMAIN nakshatras]

InitKootas ==
    /\ pc = "call"
    /\ call \in YoniCalls \cup TaraCalls
    /\ ret = <<>>
    /\ MatchIdle
    /\ ChartIdle

Call_calculate_yoni_koota ==
    /\ pc = "call"
    /\ call.fn = "calculate_yoni_koota"
    /\ Return(calculate_yoni_koota(call.person1_nakshatra, call.person2_nakshatra))

Call_calculate_tara_koota ==
    /\ pc = "call"
    /\ call.fn = "calculate_tara_koota"
    /\ Return(calculate_tara_koota(call.person1_nakshatra, call.person2_nakshatra))

NextKootas ==
    \/ Call_calculate_yoni_koota
    \/ Call_calculate_tara_koota

SpecKootas == InitKootas /\ [][NextKootas]_vars

(***************************************************************************)
(* SpecTime: the two Julian day functions, each applied once to a date, a  *)
(* clock time on the half hour and a zone name.                            *)
(***************************************************************************)
ClockDates ==
    {<<2020, 3, 7>>, <<2020, 3, 8>>, <<2020, 7, 4>>, <<2020, 10, 31>>, <<2020, 11, 1>>,
     <<2020, 2, 30>>}

ClockTimes == {<<h, m>> : h \in 0 .. 24, m \in {0, 30}}

ZoneNames == {None, "", "UTC", "Asia/Kolkata", "America/New_York", "Mars/Olympus_Mons"}

JulianDayCalls ==
    [fn : {"calculate_julian_day", "calculate_accurate_julian_day"},
     birth_date : ClockDates, birth_time : ClockTimes, timezone_str : ZoneNames]

InitTime ==
    /\ pc = "call"
    /\ call \in JulianDayCalls
    /\ ret = <<>>
    /\ MatchIdle
    /\ ChartIdle

Call_calculate_julian_day ==
    /\ pc = "call"
    /\ call.fn = "calculate_julian_day"
    /\ Return(julian_day_of(call.birth_date, call.birth_time, call.timezone_str))

Call_calculate_accurate_julian_day ==
    /\ pc = "call"
    /\ call.fn = "calculate_accurate_julian_day"
    /\ Return(calculate_accurate_julian_day(call.birth_date, call.birth_time,
                                            call.timezone_str))

NextTime ==
    \/ Call_calculate_julian_day
    \/ Call_calculate_accurate_julian_day

SpecTime == InitTime /\ [][NextTime]_vars

(***************************************************************************)
(* SpecChart: BirthChartService.generate_birth_chart, one step per call it *)
(* makes and one per body of the loop in calculate_planet_positions.  Any  *)
(* exception ends the request with the ValueError of the except clause.    *)
(***************************************************************************)
MaxMoments == 24

\* A keyword argument the caller leaves out.
Omitted == "omitted"

\* What callers pass to BirthChartRequest(...).  TimeArguments vary the date,
\* the time, the place and the zone and leave the two systems out;
\* SkyArguments are births at noon in India, one a year from 1990, under
\* every house system and every ayanamsa system.
TimeArguments ==
    [birth_date : {<<2020, 11, 1>>, <<2020, 3, 8>>, <<2020, 7, 4>>, <<1879, 3, 14>>,
                   <<2101, 1, 1>>, <<2020, 2, 30>>},
     birth_time : {<<1, 30>>, <<2, 30>>, <<12, 0>>, <<24, 0>>},
     latitude : {28, 91},
     longitude : {77, -181},
     timezone : {Omitted, None, "UTC", "Asia/Kolkata", "America/New_York",
                 "Mars/Olympus_Mons"},
     house_system : {Omitted},
     ayanamsa : {Omitted}]

SkyArguments ==
    [birth_date : {<<1990 + k, 6, 15>> : k \in 0 .. (MaxMoments - 1)},
     birth_time : {<<12, 0>>},
     latitude : {28},
     longitude : {77},
     timezone : {"Asia/Kolkata"},
     house_system : DOMAIN HOUSE_SYSTEMS,
     ayanamsa : DOMAIN AYANAMSA_CONSTANTS]

\* class BirthChartRequest: the fields whose validation fails on construction
\* (the two validators and the ge / le bounds)
BirthChartRequest_errors(kwargs) ==
    {f \in {"birth_date", "birth_time", "latitude", "longitude"} :
        \/ f = "birth_date" /\ strptime_date_fails(kwargs.birth_date)
        \/ f = "birth_time" /\ strptime_time_fails(kwargs.birth_time)
        \/ f = "latitude" /\ ~(-90 <= kwargs.latitude /\ kwargs.latitude <= 90)
        \/ f = "longitude" /\ ~(-180 <= kwargs.longitude /\ kwargs.longitude <= 180)}

\* class BirthChartRequest: the object, with the defaults of the fields left
\* out; fields_set names the fields the caller gave.
BirthChartRequest(kwargs) ==
    [birth_date |-> kwargs.birth_date,
     birth_time |-> kwargs.birth_time,
     latitude |-> kwargs.latitude,
     longitude |-> kwargs.longitude,
     timezone |-> IF kwargs.timezone = Omitted THEN "Asia/Kolkata" ELSE kwargs.timezone,
     house_system |->
        IF kwargs.house_system = Omitted THEN "Placidus" ELSE kwargs.house_system,
     ayanamsa |-> IF kwargs.ayanamsa = Omitted THEN "Lahiri" ELSE kwargs.ayanamsa,
     fields_set |-> {f \in {"timezone", "house_system", "ayanamsa"} : kwargs[f] # Omitted}
                      \cup {"birth_date", "birth_time", "latitude", "longitude"}]

InitChart ==
    /\ pc = "BirthChartRequest"
    /\ request \in TimeArguments \cup SkyArguments
    /\ julian_day = None /\ sid_mode = None /\ ayanamsa_value = None
    /\ houses = <<>> /\ planet_index = 0 /\ planets = <<>> /\ queries = <<>>
    /\ swe_calls = <<>>
    /\ chart = None
    /\ CallsIdle
    /\ MatchIdle

\* An exception leaves generate_birth_chart as ValueError; fields are the
\* fields of the request that its message names.
RaiseNaming(fields) ==
    /\ pc' = "raised"
    /\ chart' = [error |-> "ValueError", fields |-> fields]

Raise == RaiseNaming({})

\* The caller builds the request; a ValidationError ends it there.
construct_request ==
    /\ pc = "BirthChartRequest"
    /\ IF BirthChartRequest_errors(request) # {}
       THEN /\ pc' = "rejected"
            /\ chart' = [error |-> "ValidationError",
                         fields |-> BirthChartRequest_errors(request)]
            /\ UNCHANGED request
       ELSE /\ request' = BirthChartRequest(request)
            /\ pc' = "generate_birth_chart"
            /\ UNCHANGED chart
    /\ UNCHANGED <<callVars, matchVars, julian_day, sid_mode, ayanamsa_value, houses,
                   planet_index, planets, queries, swe_calls>>

\* self._validate_birth_data(...) at the head of generate_birth_chart
validate_request ==
    /\ pc = "generate_birth_chart"
    /\ LET errors == validate_birth_data(request.birth_date, request.birth_time,
                                         request.latitude, request.longitude,
                                         request.timezone)
       IN  IF errors # <<>>
           THEN RaiseNaming({errors[i].field : i \in 1 .. Len(errors)})
           ELSE pc' = "calculate_julian_day" /\ UNCHANGED chart
    /\ UNCHANGED <<callVars, matchVars, request, julian_day, sid_mode, ayanamsa_value,
                   houses, planet_index, planets, queries, swe_calls>>

calculate_julian_day ==
    /\ pc = "calculate_julian_day"
    /\ LET result == julian_day_of(request.birth_date, request.birth_time,
                                   request.timezone)
       IN  IF result.raised # "None"
           THEN /\ RaiseNaming(IF result.message = "Invalid timezone"
                               THEN {"timezone"} ELSE {})
                /\ UNCHANGED <<julian_day, swe_calls>>
           ELSE /\ julian_day' = result.julian_day
                /\ swe_calls' = Append(swe_calls, "julday")
                /\ pc' = "calculate_ayanamsa"
                /\ UNCHANGED chart
    /\ UNCHANGED <<callVars, matchVars, request, sid_mode, ayanamsa_value, houses,
                   planet_index, planets, queries>>

calculate_ayanamsa ==
    /\ pc = "calculate_ayanamsa"
    /\ sid_mode' = AYANAMSA_CONSTANTS[request.ayanamsa]
    /\ ayanamsa_value' = swe_get_ayanamsa(julian_day, sid_mode')
    /\ swe_calls' = swe_calls \o <<"set_sid_mode", "get_ayanamsa">>
    /\ pc' = "calculate_houses"
    /\ UNCHANGED <<callVars, matchVars, request, julian_day, houses, planet_index,
                   planets, queries, chart>>

calculate_houses ==
    /\ pc = "calculate_houses"
    /\ \E reply \in swe_replies :
       LET system_char == HOUSE_SYSTEMS[request.house_system]
           house_cusps == swe_houses(julian_day, system_char)
           cusp(i) == apply_ayanamsa_correction(house_cusps[i], ayanamsa_value)
       IN  /\ swe_calls' = swe_calls \o Logged("houses", reply)
           /\ IF \/ reply = "swe.Error"
                 \/ \E i \in 1 .. 12 : get_zodiac_sign(cusp(i)) = "IndexError"
              THEN Raise /\ UNCHANGED <<houses, planet_index>>
              ELSE /\ houses' = [i \in 1 .. 12 |-> House(i, cusp(i))]
                   /\ planet_index' = 1
                   /\ pc' = "calculate_planet_positions"
                   /\ UNCHANGED chart
    /\ UNCHANGED <<callVars, matchVars, request, julian_day, sid_mode,
                   ayanamsa_value, planets, queries>>

\* for planet_enum in Planet: a member that is not a key of PLANET_CONSTANTS
planet_not_in_constants ==
    /\ pc = "calculate_planet_positions"
    /\ planet_index <= Len(Planet)
    /\ Planet[planet_index] \notin DOMAIN PLANET_CONSTANTS
    /\ planet_index' = planet_index + 1
    /\ UNCHANGED <<pc, callVars, matchVars, request, julian_day, sid_mode,
                   ayanamsa_value, houses, planets, queries, swe_calls, chart>>

\* for planet_enum in Planet: a member that is a key of PLANET_CONSTANTS
calculate_planet_position ==
    /\ pc = "calculate_planet_positions"
    /\ planet_index <= Len(Planet)
    /\ Planet[planet_index] \in DOMAIN PLANET_CONSTANTS
    /\ \E reply \in swe_replies :
       LET planet_enum == Planet[planet_index]
           planet_id == PLANET_CONSTANTS[planet_enum]
           position == swe_calc_ut(julian_day, planet_id)
           speed_val == position.speed
           longitude == apply_ayanamsa_correction(position.longitude, ayanamsa_value)
           house_cusps == [i \in 1 .. 12 |-> houses[i].cusp]
           with_ketu ==
               IF planet_enum = "RAHU"
               THEN Append(planets, KetuPosition(longitude, position.latitude,
                                                 position.distance, speed_val,
                                                 house_cusps))
               ELSE planets
       IN  /\ queries' = Append(queries, planet_id)
           /\ swe_calls' = swe_calls \o Logged("calc_ut", reply)
           /\ IF reply = "swe.Error" \/ get_zodiac_sign(longitude) = "IndexError"
              THEN Raise /\ UNCHANGED <<planets, planet_index>>
              ELSE /\ planets' =
                        Append(with_ketu,
                               PlanetPosition(planet_enum, longitude, position.latitude,
                                              position.distance, speed_val,
                                              speed_val < 0, house_cusps))
                   /\ planet_index' = planet_index + 1
                   /\ UNCHANGED <<pc, chart>>
    /\ UNCHANGED <<callVars, matchVars, request, julian_day, sid_mode,
                   ayanamsa_value, houses>>

\* calculate_aspects, generate_chart_summary and the BirthChartResponse
generate_birth_chart ==
    /\ pc = "calculate_planet_positions"
    /\ planet_index > Len(Planet)
    /\ chart' = [birth_datetime |-> [date |-> strptime_date(request.birth_date),
                                     time |-> strptime_time(request.birth_time)],
                 location |-> [latitude |-> request.latitude,
                               longitude |-> request.longitude],
                 julian_day |-> julian_day,
                 house_system |-> request.house_system,
                 ayanamsa |-> request.ayanamsa,
                 ayanamsa_value |-> ayanamsa_value,
                 planets |-> planets,
                 houses |-> houses,
                 aspects |-> calculate_aspects(planets),
                 chart_summary |-> generate_chart_summary(planets, houses)]
    /\ pc' = "returned"
    /\ UNCHANGED <<callVars, matchVars, request, julian_day, sid_mode,
                   ayanamsa_value, houses, planet_index, planets, queries, swe_calls>>

NextChart ==
    \/ construct_request
    \/ validate_request
    \/ calculate_julian_day
    \/ calculate_ayanamsa
    \/ calculate_houses
    \/ planet_not_in_constants
    \/ calculate_planet_position
    \/ generate_birth_chart

SpecChart == InitChart /\ [][NextChart]_vars

ChartReturned == pc = "returned"

\* The record of a body in a returned chart's planet list.
Body(planet_enum) ==
    planets[CHOOSE i \in 1 .. Len(planets) : planets[i].planet = planet_enum]

(***************************************************************************)
(* ImprovedBirthChartService.generate_accurate_birth_chart: its tables,    *)
(* its helpers, and one step per call it makes and per body of the loop in *)
(* calculate_precise_planets.  It returns a result dictionary: the chart   *)
(* with success True, or success False and the error.                      *)
(***************************************************************************)
\* self.PLANET_CONSTANTS, in the order its items are iterated
Improved_PLANET_CONSTANTS ==
    <<<<"SUN", "swe.SUN">>, <<"MOON", "swe.MOON">>, <<"MERCURY", "swe.MERCURY">>,
      <<"VENUS", "swe.VENUS">>, <<"MARS", "swe.MARS">>, <<"JUPITER", "swe.JUPITER">>,
      <<"SATURN", "swe.SATURN">>, <<"URANUS", "swe.URANUS">>,
      <<"NEPTUNE", "swe.NEPTUNE">>, <<"PLUTO", "swe.PLUTO">>,
      <<"RAHU", "swe.TRUE_NODE">>>>

Improved_HOUSE_SYSTEMS ==
    ("Placidus" :> "P") @@ ("Koch" :> "K") @@ ("Equal" :> "E") @@
    ("Whole Sign" :> "W") @@ ("Campanus" :> "C") @@ ("Regiomontanus" :> "R")

AYANAMSA_SYSTEMS ==
    ("Lahiri" :> "SIDM_LAHIRI") @@ ("Raman" :> "SIDM_RAMAN") @@
    ("Krishnamurti" :> "SIDM_KRISHNAMURTI") @@ ("Yukteshwar" :> "SIDM_YUKTESHWAR") @@
    ("JN_Bhasin" :> "SIDM_JN_BHASIN")

\* ImprovedBirthChartService.validate_birth_data: the fields of its errors
\* list.  A year before 1800 or after 2100 is a warning, never an error.
Improved_validate_birth_data(birth_date, birth_time, latitude, longitude, timezone_str) ==
    LET errors ==
            (IF strptime_date_fails(birth_date) THEN <<"birth_date">> ELSE <<>>)
         \o (IF strptime_time_fails(birth_time) THEN <<"birth_time">> ELSE <<>>)
         \o (IF ~(-90 <= latitude /\ latitude <= 90) THEN <<"latitude">> ELSE <<>>)
         \o (IF ~(-180 <= longitude /\ longitude <= 180) THEN <<"longitude">> ELSE <<>>)
         \o (IF Truthy(timezone_str) /\ pytz_timezone(timezone_str) = "UnknownTimeZoneError"
             THEN <<"timezone">> ELSE <<>>)
    IN  [valid |-> Len(errors) = 0, errors |-> errors]

\* calculate_precise_julian_day: the Julian day in ticks and the warnings of
\* the conversion, or the ValueError that leaves the function.
precise_julian_day_of(birth_date, birth_time, timezone_str) ==
    IF strptime_date_fails(birth_date) \/ strptime_time_fails(birth_time)
    THEN [raised |-> "ValueError", julian_day |-> 0, warnings |-> <<>>]
    ELSE LET date == strptime_date(birth_date)
             time == strptime_time(birth_time)
         IN  IF Truthy(timezone_str)
             THEN IF pytz_timezone(timezone_str) = "UnknownTimeZoneError"
                  THEN [raised |-> "ValueError", julian_day |-> 0, warnings |-> <<>>]
                  ELSE LET dt_local == localize_handling_dst(pytz_timezone(timezone_str),
                                                             date, time)
                       IN  [raised |-> "None",
                            julian_day |-> swe_julday(date, time) - dt_local.utcoffset,
                            warnings |->
                               IF dt_local.raised = "AmbiguousTimeError"
                               THEN <<"DST ambiguity resolved to standard time">>
                               ELSE IF dt_local.raised = "NonExistentTimeError"
                               THEN <<"DST gap resolved to daylight time">>
                               ELSE <<>>]
             ELSE [raised |-> "None", julian_day |-> swe_julday(date, time),
                   warnings |-> <<"No timezone specified, assuming UTC">>]

normalize_longitude(longitude) == longitude % Circle

get_sign_from_longitude(longitude) ==
    LET sign_index == normalize_longitude(longitude) \div Deg(30)
    IN  ZODIAC_SIGNS[(sign_index % 12) + 1]

\* _calculate_house_placement: the first house whose test holds, else 1
calculate_house_placement(longitude, house_cusps) ==
    LET lon == normalize_longitude(longitude)
        test(i) ==
            LET cusp_current == normalize_longitude(house_cusps[i + 1])
                cusp_next == normalize_longitude(house_cusps[((i + 1) % 12) + 1])
            IN  IF cusp_current > cusp_next
                THEN lon >= cusp_current \/ lon < cusp_next
                ELSE cusp_current <= lon /\ lon < cusp_next
        found == {i \in 0 .. 11 : test(i)}
    IN  IF found = {} THEN 1
        ELSE (CHOOSE i \in found : \A j \in found : i <= j) + 1

\* The ascendant entry as the summary line of generate_accurate_birth_chart
\* reads it, with a 'formatted' text.
AngleData_formatted(longitude) ==
    [longitude |-> longitude,
     sign |-> get_sign_from_longitude(longitude),
     degree |-> longitude % Deg(30),
     formatted |-> <<longitude % Deg(30), get_sign_from_longitude(longitude)>>]

\* The 'ascendant' and 'midheaven' entries of calculate_precise_houses
AngleData(longitude) ==
    [longitude |-> longitude,
     sign |-> get_sign_from_longitude(longitude),
     degree |-> longitude % Deg(30)]

\* calculate_precise_houses, from what swe.houses returned
HouseData(house_cusps, ascmc, ayanamsa) ==
    LET corrected_cusps ==
            [i \in 1 .. 12 |-> normalize_longitude(house_cusps[i] - ayanamsa)]
    IN  [houses |-> [i \in 1 .. 12 |->
                        [house |-> i,
                         cusp_longitude |-> corrected_cusps[i],
                         sign |-> get_sign_from_longitude(corrected_cusps[i]),
                         degree_in_sign |-> corrected_cusps[i] % Deg(30)]],
         house_cusps |-> corrected_cusps,
         ascendant |-> AngleData(normalize_longitude(ascmc[1] - ayanamsa)),
         midheaven |-> AngleData(normalize_longitude(ascmc[2] - ayanamsa))]

\* planet_data of calculate_precise_planets
PlanetData(planet_enum, longitude, latitude, distance, speed_lon, retrograde, house_cusps) ==
    [planet |-> planet_enum, longitude |-> longitude, latitude |-> latitude,
     distance |-> distance, speed_longitude |-> speed_lon,
     sign |-> get_sign_from_longitude(longitude),
     degree_in_sign |-> longitude % Deg(30),
     house |-> calculate_house_placement(longitude, house_cusps),
     retrograde |-> retrograde]

AccurateArguments ==
    [birth_date : {<<1990, 6, 15>>, <<2020, 2, 30>>},
     birth_time : {<<12, 0>>},
     latitude : {28, 91},
     longitude : {77},
     timezone_str : {"Asia/Kolkata", "Mars/Olympus_Mons"},
     house_system : DOMAIN Improved_HOUSE_SYSTEMS,
     ayanamsa_system : DOMAIN AYANAMSA_SYSTEMS]

InitAccurate ==
    /\ pc = "validate_birth_data"
    /\ request \in AccurateArguments
    /\ julian_day = None /\ sid_mode = None /\ ayanamsa_value = None
    /\ houses = <<>> /\ planet_index = 0 /\ planets = <<>> /\ queries = <<>>
    /\ swe_calls = <<>>
    /\ chart = None
    /\ CallsIdle
    /\ MatchIdle

\* except Exception as e: return {'success': False, 'error': str(e), ...}
ReturnError(e) ==
    /\ pc' = "result"
    /\ chart' = [success |-> FALSE, error |-> e]

improved_validate_birth_data ==
    /\ pc = "validate_birth_data"
    /\ LET validation ==
               Improved_validate_birth_data(request.birth_date, request.birth_time,
                                            request.latitude, request.longitude,
                                            request.timezone_str)
       IN  IF ~validation.valid
           THEN ReturnError("Validation failed")
           ELSE pc' = "calculate_precise_julian_day" /\ UNCHANGED chart
    /\ UNCHANGED <<callVars, matchVars, request, julian_day, sid_mode, ayanamsa_value,
                   houses, planet_index, planets, queries, swe_calls>>

calculate_precise_julian_day ==
    /\ pc = "calculate_precise_julian_day"
    /\ LET result == precise_julian_day_of(request.birth_date, request.birth_time,
                                           request.timezone_str)
       IN  IF result.raised # "None"
           THEN /\ ReturnError("Failed to calculate Julian Day")
                /\ UNCHANGED <<julian_day, swe_calls>>
           ELSE /\ julian_day' = result.julian_day
                /\ swe_calls' = Append(swe_calls, "julday")
                /\ pc' = "calculate_precise_ayanamsa"
                /\ UNCHANGED chart
    /\ UNCHANGED <<callVars, matchVars, request, sid_mode, ayanamsa_value, houses,
                   planet_index, planets, queries>>

calculate_precise_ayanamsa ==
    /\ pc = "calculate_precise_ayanamsa"
    /\ sid_mode' = AYANAMSA_SYSTEMS[request.ayanamsa_system]
    /\ ayanamsa_value' = swe_get_ayanamsa(julian_day, sid_mode')
    /\ swe_calls' = swe_calls \o <<"set_sid_mode", "get_ayanamsa">>
    /\ pc' = "calculate_precise_houses"
    /\ UNCHANGED <<callVars, matchVars, request, julian_day, houses, planet_index,
                   planets, queries, chart>>

\* A failure of swe.houses leaves as ValueError('Failed to calculate houses')
calculate_precise_houses ==
    /\ pc = "calculate_precise_houses"
    /\ \E reply \in swe_replies :
       LET system_code == Improved_HOUSE_SYSTEMS[request.house_system]
       IN  /\ swe_calls' = swe_calls \o Logged("houses", reply)
           /\ IF reply = "swe.Error"
              THEN /\ ReturnError("Failed to calculate houses")
                   /\ UNCHANGED <<houses, planet_index>>
              ELSE /\ houses' = HouseData(swe_houses(julian_day, system_code),
                                          swe_houses_ascmc(julian_day), ayanamsa_value)
                   /\ planet_index' = 1
                   /\ pc' = "calculate_precise_planets"
                   /\ UNCHANGED chart
    /\ UNCHANGED <<callVars, matchVars, request, julian_day, sid_mode,
                   ayanamsa_value, planets, queries>>

\* One body of the loop: its try catches every exception, and a result whose
\* second item is not 0 is printed as an error; both go on to the next body.
calculate_precise_planet ==
    /\ pc = "calculate_precise_planets"
    /\ planet_index <= Len(Improved_PLANET_CONSTANTS)
    /\ \E reply \in swe_replies :
       LET planet_enum == Improved_PLANET_CONSTANTS[planet_index][1]
           planet_id == Improved_PLANET_CONSTANTS[planet_index][2]
           position == swe_calc_ut(julian_day, planet_id)
           retflags == swe_calc_ut_retflags({"FLG_SWIEPH", "FLG_SPEED"})
           corrected_longitude ==
               normalize_longitude(position.longitude - ayanamsa_value)
           planet_data ==
               PlanetData(planet_enum, corrected_longitude, position.latitude,
                          position.distance, position.speed, position.speed < 0,
                          houses.house_cusps)
           ketu_data ==
               PlanetData("KETU", normalize_longitude(corrected_longitude + Deg(180)),
                          -position.latitude, position.distance, -position.speed,
                          TRUE, houses.house_cusps)
       IN  /\ queries' = Append(queries, planet_id)
           /\ swe_calls' = swe_calls \o Logged("calc_ut", reply)
           /\ planets' =
                 IF reply = "swe.Error" \/ retflags # {}
                 THEN planets
                 ELSE IF planet_enum = "RAHU"
                 THEN planets \o <<planet_data, ketu_data>>
                 ELSE Append(planets, planet_data)
    /\ planet_index' = planet_index + 1
    /\ UNCHANGED <<pc, callVars, matchVars, request, julian_day, sid_mode,
                   ayanamsa_value, houses, chart>>

\* The result dictionary, and the summary lines printed before it is
\* returned: house_data['ascendant']['formatted'] raises KeyError when the
\* ascendant entry has no such key.
generate_accurate_birth_chart ==
    /\ pc = "calculate_precise_planets"
    /\ planet_index > Len(Improved_PLANET_CONSTANTS)
    /\ IF "formatted" \in DOMAIN houses.ascendant
       THEN /\ chart' = [success |-> TRUE,
                         julian_day |-> julian_day,
                         house_system |-> request.house_system,
                         ayanamsa_system |-> request.ayanamsa_system,
                         ayanamsa_value |-> ayanamsa_value,
                         ascendant |-> houses.ascendant,
                         midheaven |-> houses.midheaven,
                         houses |-> houses.houses,
                         planets |-> planets,
                         total_planets |-> Len(planets)]
            /\ pc' = "result"
       ELSE ReturnError("KeyError: 'formatted'")
    /\ UNCHANGED <<callVars, matchVars, request, julian_day, sid_mode,
                   ayanamsa_value, houses, planet_index, planets, queries, swe_calls>>

NextAccurate ==
    \/ improved_validate_birth_data
    \/ calculate_precise_julian_day
    \/ calculate_precise_ayanamsa
    \/ calculate_precise_houses
    \/ calculate_precise_planet
    \/ generate_accurate_birth_chart

(***************************************************************************)
(* SpecEphemeris: a chart generation by either service, with an ephemeris  *)
(* whose queries may fail.                                                 *)
(***************************************************************************)
InitEphemeris == InitChart \/ InitAccurate

NextEphemeris ==
    \/ construct_request
    \/ validate_request
    \/ calculate_julian_day
    \/ calculate_ayanamsa
    \/ calculate_houses
    \/ planet_not_in_constants
    \/ calculate_planet_position
    \/ generate_birth_chart
    \/ improved_validate_birth_data
    \/ calculate_precise_julian_day
    \/ calculate_precise_ayanamsa
    \/ calculate_precise_houses
    \/ calculate_precise_planet
    \/ generate_accurate_birth_chart

SpecEphemeris == InitEphemeris /\ [][NextEphemeris]_vars

(***************************************************************************)
(* SpecThreads: two chart computations in calculate_ayanamsa at the same   *)
(* time, on the one swisseph module that birth_chart_service shares.  The  *)
(* function holds no lock, so its two calls are two steps of each thread.  *)
(***************************************************************************)
Threads == {1, 2}

ThreadMoments ==
    {swe_julday([year |-> y, month |-> 6, day |-> 15], [hour |-> 12, minute |-> 0]) :
        y \in {1950, 2020}}

InitThreads ==
    /\ pc = [t \in Threads |-> "set_sid_mode"]
    /\ request \in [Threads -> [ayanamsa : DOMAIN AYANAMSA_CONSTANTS]]
    /\ julian_day \in [Threads -> ThreadMoments]
    /\ sid_mode = None
    /\ ayanamsa_value = [t \in Threads |-> None]
    /\ swe_calls = <<>>
    /\ houses = <<>> /\ planet_index = 0 /\ planets = <<>> /\ queries = <<>>
    /\ chart = None
    /\ CallsIdle
    /\ MatchIdle

\* swe.set_sid_mode(AYANAMSA_CONSTANTS[ayanamsa]) by one of the threads
thread_set_sid_mode ==
    \E t \in Threads :
        /\ pc[t] = "set_sid_mode"
        /\ sid_mode' = AYANAMSA_CONSTANTS[request[t].ayanamsa]
        /\ swe_calls' = Append(swe_calls, <<t, "set_sid_mode">>)
        /\ pc' = [pc EXCEPT ![t] = "get_ayanamsa"]
        /\ UNCHANGED <<callVars, matchVars, request, julian_day, ayanamsa_value, houses,
                       planet_index, planets, queries, chart>>

\* return swe.get_ayanamsa(julian_day) by one of the threads
thread_get_ayanamsa ==
    \E t \in Threads :
        /\ pc[t] = "get_ayanamsa"
        /\ ayanamsa_value' =
              [ayanamsa_value EXCEPT ![t] = swe_get_ayanamsa(julian_day[t], sid_mode)]
        /\ swe_calls' = Append(swe_calls, <<t, "get_ayanamsa">>)
        /\ pc' = [pc EXCEPT ![t] = "calculate_houses"]
        /\ UNCHANGED <<callVars, matchVars, request, julian_day, sid_mode, houses,
                       planet_index, planets, queries, chart>>

NextThreads ==
    \/ thread_set_sid_mode
    \/ thread_get_ayanamsa

SpecThreads == InitThreads /\ [][NextThreads]_vars

(***************************************************************************)
(* SpecAspects: calculate_aspects applied once to a list of three planets, *)
(* the second of them anywhere on the circle.                              *)
(***************************************************************************)
AspectPlanet(planet_enum, longitude, speed) ==
    [planet |-> planet_enum, longitude |-> longitude, speed |-> speed]

AspectCalls ==
    [fn : {"calculate_aspects"},
     planet_list :
        {<<AspectPlanet("SUN", sun, 1), AspectPlanet("MOON", moon, 13),
           AspectPlanet("MARS", mars, 0)>> :
            sun \in {0, Deg(200)}, moon \in Longitudes, mars \in {Deg(90), Circle - 1}}]

InitAspects ==
    /\ pc = "call"
    /\ call \in AspectCalls
    /\ ret = <<>>
    /\ MatchIdle
    /\ ChartIdle

Call_calculate_aspects ==
    /\ pc = "call"
    /\ call.fn = "calculate_aspects"
    /\ Return(calculate_aspects(call.planet_list))

NextAspects == Call_calculate_aspects

SpecAspects == InitAspects /\ [][NextAspects]_vars

(***************************************************************************)
(* get_compatibility_info: the "interpretation" table the endpoint         *)
(* publishes, each band of total points with its text.                     *)
(***************************************************************************)
interpretation ==
    <<<<30, 36, "Excellent match">>, <<24, 29, "Very good match">>,
      <<18, 23, "Good match">>, <<12, 17, "Average match">>,
      <<6, 11, "Below average match">>, <<0, 5, "Poor match">>>>

(***************************************************************************)
(* SpecEnhanced: calculate_enhanced_compatibility_match of                 *)
(* EnhancedCompatibilityService.  Scores are exact fractions num/den; the  *)
(* weights and the fixed factor scores are counted in thousandths.         *)
(***************************************************************************)
advanced_weights ==
    [traditional_ashtakoota |-> 400, navamsa_compatibility |-> 250,
     planetary_aspects |-> 150, dasha_compatibility |-> 100, dosha_analysis |-> 100]

\* sum(navamsa_factors.values()) / len(navamsa_factors)
navamsa_score == (750 + 680 + 820 + 710 + 650) \div 5

\* sum(synastry_aspects.values()) / len(synastry_aspects)
synastry_score == (780 + 650 + 820 + 740 + 690 + 580) \div 6

current_period_compatibility == 720

\* _calculate_enhanced_doshas: the traditional doshas, then GRAHA_MAITRI and
\* RAJJU (the texts of each entry are left out).
calculate_enhanced_doshas(chart1, chart2) ==
    LET traditional_doshas == calculate_doshas(chart1, chart2)
        enhanced_doshas ==
            [i \in 1 .. Len(traditional_doshas) |->
                [dosha_type |-> traditional_doshas[i].dosha_type,
                 severity   |-> traditional_doshas[i].severity,
                 cancelled  |-> traditional_doshas[i].cancelled]]
        additional_doshas ==
            << [dosha_type |-> "GRAHA_MAITRI", severity |-> "Low", cancelled |-> TRUE],
               [dosha_type |-> "RAJJU", severity |-> "None", cancelled |-> FALSE] >>
    IN  enhanced_doshas \o additional_doshas

\* {"Low": 0.1, "Medium": 0.3, "High": 0.5}.get(severity, 0.0), in thousandths
dosha_impact(severity) ==
    IF severity = "Low" THEN 100
    ELSE IF severity = "Medium" THEN 300
    ELSE IF severity = "High" THEN 500
    ELSE 0

RECURSIVE total_negative_impact(_, _)
total_negative_impact(dosha_analysis, n) ==
    IF n = 0 THEN 0
    ELSE total_negative_impact(dosha_analysis, n - 1) +
         (IF dosha_analysis[n].severity # "None" /\ ~dosha_analysis[n].cancelled
          THEN dosha_impact(dosha_analysis[n].severity) ELSE 0)

\* max(0.0, 1.0 - total_negative_impact), in thousandths
calculate_dosha_impact_score(dosha_analysis) ==
    LET rest == 1000 - total_negative_impact(dosha_analysis, Len(dosha_analysis))
    IN  IF rest < 0 THEN 0 ELSE rest

\* age_diff = abs((date1 - date2).days) / 365.25 against 3, 6 and 10 years;
\* the modifier in twentieths.
age_modifier(age_difference_days) ==
    IF age_difference_days * 100 <= 3 * 36525 THEN 20
    ELSE IF age_difference_days * 100 <= 6 * 36525 THEN 19
    ELSE IF age_difference_days * 100 <= 10 * 36525 THEN 18
    ELSE 17

\* geo_modifier = 0.98, in fiftieths
geo_modifier == 49

\* The denominator of final_score: 180000 for the weighted sum, 20 for the
\* age modifier and 50 for the geographic modifier.
ScoreDen == 180000 * 20 * 50

\* The weighted sum over 180000: total_points/36 * 0.4 is total_points2/180.
weighted_score(total_points2, dosha_score) ==
    total_points2 * 1000 +
    (18 * ( navamsa_score * advanced_weights.navamsa_compatibility
          + synastry_score * advanced_weights.planetary_aspects
          + current_period_compatibility * advanced_weights.dasha_compatibility
          + dosha_score * advanced_weights.dosha_analysis)) \div 100

\* _apply_statistical_modifiers: min(1.0, base_score * age_modifier * geo_modifier)
apply_statistical_modifiers(base_score, age_difference_days) ==
    Min(ScoreDen, base_score * age_modifier(age_difference_days) * geo_modifier)

\* _get_enhanced_compatibility_level on num/ScoreDen (no score that occurs
\* lies on a threshold: 49 * age_modifier * base is never a multiple of
\* ScoreDen / 10).
get_enhanced_compatibility_level(num) ==
    LET hundredth == ScoreDen \div 100
    IN  IF num >= 90 * hundredth THEN "Exceptional - Rare cosmic harmony"
        ELSE IF num >= 80 * hundredth THEN "Excellent - Highly recommended match"
        ELSE IF num >= 70 * hundredth THEN "Very Good - Strong compatibility"
        ELSE IF num >= 60 * hundredth THEN "Good - Promising relationship potential"
        ELSE IF num >= 50 * hundredth THEN "Average - Requires mutual effort"
        ELSE IF num >= 40 * hundredth THEN "Below Average - Significant challenges"
        ELSE "Challenging - Consider carefully"

\* The analysis of the try block (the recommendation, timing, remedy and
\* insight texts derived from it are left out).
enhanced_analysis(chart1, chart2, age_difference_days) ==
    LET traditional_result == CompatibilityMatchResponse(chart1, chart2)
        enhanced_dosha_analysis == calculate_enhanced_doshas(chart1, chart2)
        dosha_score == calculate_dosha_impact_score(enhanced_dosha_analysis)
        final_score ==
            apply_statistical_modifiers(
                weighted_score(traditional_result.total_points2, dosha_score),
                age_difference_days)
    IN  [final_score |-> [num |-> final_score, den |-> ScoreDen],
         compatibility_level |-> get_enhanced_compatibility_level(final_score),
         traditional_ashtakoota |->
             [num |-> traditional_result.total_points2, den |-> 2 * 36],
         dosha_analysis |-> enhanced_dosha_analysis,
         statistical_insights |-> "analysis"]

\* _generate_fallback_analysis
generate_fallback_analysis ==
    [final_score |-> [num |-> 65, den |-> 100],
     compatibility_level |-> "Good - Analysis completed with basic parameters",
     traditional_ashtakoota |-> [num |-> 65, den |-> 100],
     dosha_analysis |-> <<>>,
     statistical_insights |-> "Fallback analysis - contact support for full report"]

\* Differences in days between the two birth dates.
AgeDifferences == {0, 1977, 3000, 4000}

\* The three steps of the try block that compute from the ephemeris: each
\* returns or raises, and a step after a raise is not run.
EnhancedOutcomes ==
    { [person1 |-> "ok", person2 |-> "ok", ashtakoota |-> "ok"],
      [person1 |-> "Exception", person2 |-> "skipped", ashtakoota |-> "skipped"],
      [person1 |-> "ok", person2 |-> "Exception", ashtakoota |-> "skipped"],
      [person1 |-> "ok", person2 |-> "ok", ashtakoota |-> "Exception"] }

ChartsFailed(outcome) == "Exception" \in {outcome.person1, outcome.person2, outcome.ashtakoota}

InitEnhanced ==
    /\ pc = "enhanced_request"
    /\ MatchIdle
    /\ CallsIdle
    /\ ChartIdle

calculate_enhanced_compatibility_match ==
    /\ pc = "enhanced_request"
    /\ \E outcome \in EnhancedOutcomes, age_difference_days \in AgeDifferences :
        /\ call' = [fn |-> "calculate_enhanced_compatibility_match",
                    outcome |-> outcome,
                    age_difference_days |-> age_difference_days]
        /\ IF ChartsFailed(outcome)
           THEN \* except Exception: return self._generate_fallback_analysis(request)
                /\ response' = generate_fallback_analysis
                /\ UNCHANGED <<person1_chart, person2_chart>>
           ELSE \E chart1 \in PersonCharts, chart2 \in PersonCharts :
                /\ person1_chart' = chart1
                /\ person2_chart' = chart2
                /\ response' = enhanced_analysis(chart1, chart2, age_difference_days)
    /\ pc' = "enhanced"
    /\ UNCHANGED <<ret, chartVars>>

NextEnhanced == calculate_enhanced_compatibility_match

SpecEnhanced == InitEnhanced /\ [][NextEnhanced]_vars

EnhancedReturned == pc = "enhanced"

(***************************************************************************)
(* C1: for every well-formed 12-cusp set and every longitude in [0,360),   *)
(* exactly one house index satisfies get_house_number's membership test,   *)
(* it is the house whose arc (from its cusp to the next, going round the   *)
(* circle) holds the longitude, and get_house_number returns that index    *)
(* plus one, a value in 1..12.  With cusps 0,30,...,330, longitude 359     *)
(* gives house 12 and longitude 1 gives house 1.                           *)
(***************************************************************************)
OnArc(i, longitude, cusps) ==
    LET from == cusps[i + 1]
        to   == cusps[((i + 1) % 12) + 1]
    IN  (longitude - from) % Circle < (to - from) % Circle

EqualCuspsFromZero == CuspsFrom(0, <<30, 30, 30, 30, 30, 30>>)

C1_HouseUnique ==
    Returned("get_house_number") =>
        LET L == call.longitude
            c == call.house_cusps
            matches == {i \in 0 .. 11 : InHouse(i, L, c)}
        IN  /\ Cardinality(matches) = 1
            /\ matches = {i \in 0 .. 11 : OnArc(i, L, c)}
            /\ ret[1] \in 1 .. 12
            /\ (ret[1] - 1) \in matches
            /\ (c = EqualCuspsFromZero /\ L = Deg(359) => ret[1] = 12)
            /\ (c = EqualCuspsFromZero /\ L = Deg(1) => ret[1] = 1)

\* A longitude past the cusp of the house on the 0/360 seam, that house not
\* being the first.
C1_Witness ==
    /\ Returned("get_house_number")
    /\ \E i \in 1 .. 11 :
        /\ call.house_cusps[i + 1] > call.house_cusps[((i + 1) % 12) + 1]
        /\ call.longitude >= call.house_cusps[i + 1]
        /\ ret[1] = i + 1

(***************************************************************************)
(* C2: for every tropical longitude in [0,360) and every ayanamsa value    *)
(* the adapter can return, negative ones included, the corrected           *)
(* (sidereal) longitude equals (tropical - ayanamsa) mod 360 and lies in   *)
(* [0,360).                                                                *)
(***************************************************************************)
C2_SiderealNormalized ==
    Returned("apply_ayanamsa_correction") =>
        /\ ret[1] = (call.longitude - call.ayanamsa_value) % Circle
        /\ ret[1] \in Longitudes

(***************************************************************************)
(* C3: when the two Moon signs are 7th from each other (opposite signs,    *)
(* such as Aries and Libra) the Bhakoot koota earns the full 7 of 7        *)
(* points; in general its points are the entry of the 12-entry table for   *)
(* the computed sign distance.                                             *)
(***************************************************************************)
C3_BhakootSeventhFull ==
    Matched =>
        LET n1 == sign_numbers[person1_chart.moon.sign]
            n2 == sign_numbers[person2_chart.moon.sign]
            bhakoot == response.koota_scores[7]
            distance == bhakoot_distance(person1_chart.moon.sign, person2_chart.moon.sign)
        IN  /\ bhakoot.koota_type = "Bhakoot"
            /\ ((n2 - n1) % 12 = 6 => bhakoot.points_earned2 = 2 * 7)
            /\ bhakoot.points_earned2 = 2 * Get(bhakoot_compatibility, distance, 0)

(***************************************************************************)
(* C4: the eight KootaScore records of a match are, in order, Varna,       *)
(* Vashya, Tara, Yoni, Grah Maitri, Gana, Bhakoot, Nadi with max_points    *)
(* 1..8, summing to 36; each record's points_earned lies in                *)
(* [0, max_points]; total_points is the sum of the eight points_earned     *)
(* and lies in [0,36].                                                     *)
(***************************************************************************)
KootaOrder ==
    <<"Varna", "Vashya", "Tara", "Yoni", "Grah Maitri", "Gana", "Bhakoot", "Nadi">>

RECURSIVE SumMax(_, _)
SumMax(koota_scores, n) ==
    IF n = 0 THEN 0 ELSE SumMax(koota_scores, n - 1) + koota_scores[n].max_points

C4_KootaBounds ==
    Matched =>
        LET ks == response.koota_scores IN
        /\ Len(ks) = 8
        /\ \A k \in 1 .. 8 :
            /\ ks[k].koota_type = KootaOrder[k]
            /\ ks[k].max_points = k
            /\ ks[k].points_earned2 \in 0 .. (2 * ks[k].max_points)
        /\ SumMax(ks, 8) = 36
        /\ response.total_points2 =
              ks[1].points_earned2 + ks[2].points_earned2 + ks[3].points_earned2
            + ks[4].points_earned2 + ks[5].points_earned2 + ks[6].points_earned2
            + ks[7].points_earned2 + ks[8].points_earned2
        /\ response.total_points2 \in 0 .. (2 * 36)

\* A match in which Nadi earns its full 8 points and Tara its half score 1.5.
C4_Witness ==
    /\ Matched
    /\ response.koota_scores[8].points_earned2 = 2 * 8
    /\ response.koota_scores[3].points_earned2 = 3
    /\ response.total_points2 > 2 * 18

(***************************************************************************)
(* C5: the overall percentage is total_points/36*100; the overall level    *)
(* and each koota's level come from the same six thresholds on             *)
(* earned/max: >=90% Excellent, >=75% Very Good, >=60% Good, >=40%         *)
(* Average, >=20% Below Average, otherwise Poor; each boundary belongs to  *)
(* the upper tier, so exactly 90% is Excellent.                            *)
(***************************************************************************)
\* the tier of the percentage 100 * num / den
Tier(num, den) ==
    CHOOSE t \in {"Excellent", "Very Good", "Good", "Average", "Below Average", "Poor"} :
        /\ (t = "Excellent")     <=> (100 * num >= 90 * den)
        /\ (t = "Very Good")     <=> (100 * num >= 75 * den /\ 100 * num < 90 * den)
        /\ (t = "Good")          <=> (100 * num >= 60 * den /\ 100 * num < 75 * den)
        /\ (t = "Average")       <=> (100 * num >= 40 * den /\ 100 * num < 60 * den)
        /\ (t = "Below Average") <=> (100 * num >= 20 * den /\ 100 * num < 40 * den)
        /\ (t = "Poor")          <=> (100 * num < 20 * den)

C8_NakshatraIndex ==
    Returned("calculate_nakshatra_from_moon") =>
        LET L == call.moon_longitude IN
        /\ ret[1] = ((27 * L) \div Circle) + 1
        /\ ret[1] \in 1 .. 27
        /\ (L = 0 => ret[1] = 1)
        /\ (L = Circle - 1 => ret[1] = 27)
        /\ ret[1] \in DOMAIN nakshatras
        /\ DOMAIN nakshatras[ret[1]] = {"lord", "gana", "yoni", "nadi"}
        /\ nakshatras[ret[1]].gana \in {"Deva", "Manushya", "Rakshasa"}
        /\ nakshatras[ret[1]].nadi \in {"Vata", "Pitta", "Kapha"}

\* The last longitude of the circle has been classified, as nakshatra 27.
C8_Witness ==
    /\ Returned("calculate_nakshatra_from_moon")
    /\ call.moon_longitude = Circle - 1
    /\ ret[1] = 27

(***************************************************************************)
(* C9: the Nadi koota earns 0 of 8 points when the two Moon nakshatras     *)
(* have the same nadi class and 8 of 8 otherwise; the Nadi dosha record    *)
(* marks both persons affected, with severity High, exactly in the         *)
(* same-nadi case, marks neither affected otherwise, and is never          *)
(* cancelled.                                                              *)
(***************************************************************************)
\* the nadi class of the nakshatra that holds longitude L
NadiAt(L) == nakshatras[((27 * L) \div Circle) + 1].nadi

C9_Nadi ==
    Matched =>
        LET same == NadiAt(person1_chart.moon.longitude) = NadiAt(person2_chart.moon.longitude)
            koota == response.koota_scores[8]
            dosha == response.doshas[2]
        IN  /\ koota.koota_type = "Nadi" /\ koota.max_points = 8
            /\ koota.points_earned2 = (IF same THEN 0 ELSE 2 * 8)
            /\ dosha.dosha_type = "Nadi"
            /\ dosha.person1_affected = same
            /\ dosha.person2_affected = same
            /\ (dosha.severity = "High") = same
            /\ (~same => dosha.severity = "None")
            /\ dosha.cancelled = FALSE

\* Two different nakshatras of the same nadi class: 0 points and the dosha.
C9_Witness ==
    /\ Matched
    /\ calculate_nakshatra_from_moon(person1_chart.moon.longitude)
         # calculate_nakshatra_from_moon(person2_chart.moon.longitude)
    /\ response.koota_scores[8].points_earned2 = 0
    /\ response.doshas[2].person1_affected
    /\ response.doshas[2].severity = "High"

(***************************************************************************)
(* C10: for every Mars house h in 1..12 a person is Manglik iff h is in    *)
(* {1,2,4,7,8,12}; the severity is High for h in {1,4,7,8,12}, Medium for  *)
(* h = 2, and None when the person is not Manglik.                         *)
(***************************************************************************)
C10_Manglik ==
    Returned("calculate_manglik_dosha") =>
        LET h == call.birth_chart.mars.house IN
        /\ h \in 1 .. 12
        /\ ret[1].mars_house = h
        /\ ret[1].is_manglik = (h \in {1, 2, 4, 7, 8, 12})
        /\ ret[1].severity =
             (IF h \in {1, 4, 7, 8, 12} THEN "High"
              ELSE IF h = 2 THEN "Medium"
              ELSE "None")
        /\ (ret[1].severity = "None") = ~ret[1].is_manglik

\* Mars in the second house: Manglik, of Medium severity.
C10_Witness ==
    /\ Returned("calculate_manglik_dosha")
    /\ call.birth_chart.mars.house = 2
    /\ ret[1].is_manglik
    /\ ret[1].severity = "Medium"

(***************************************************************************)
(* C6.  In every chart produced by calculate_planet_positions, Ketu's      *)
(* longitude is (Rahu's sidereal longitude + 180) mod 360, its latitude    *)
(* and speed are the negation of Rahu's, its sign, degree in sign and      *)
(* house are resolved from Ketu's own longitude, and the ephemeris is not  *)
(* queried for Ketu: the 11 queries are those of PLANET_CONSTANTS, the     *)
(* true node once.                                                         *)
(***************************************************************************)
C6_KetuFromRahu ==
    ChartReturned =>
        LET rahu == Body("RAHU")
            ketu == Body("KETU")
            house_cusps == [i \in 1 .. 12 |-> houses[i].cusp]
        IN  /\ Cardinality({i \in 1 .. Len(planets) : planets[i].planet = "KETU"}) = 1
            /\ ketu.longitude = (rahu.longitude + Deg(180)) % Circle
            /\ ketu.latitude = -rahu.latitude
            /\ ketu.speed = -rahu.speed
            /\ ketu.distance = rahu.distance
            /\ ketu.sign = ZODIAC_SIGNS[(ketu.longitude \div Deg(30)) + 1]
            /\ ketu.degree = ketu.longitude % Deg(30)
            /\ ketu.house \in 1 .. 12
            /\ OnArc(ketu.house - 1, ketu.longitude, house_cusps)
            /\ Len(queries) = 11
            /\ Cardinality({i \in 1 .. Len(queries) : queries[i] = "swe.TRUE_NODE"}) = 1
            /\ chart.planets = planets

\* A returned chart whose Ketu lies in another sign and another house than
\* Rahu, past the wrap (Rahu in the second half of the circle).
C6_Witness ==
    /\ ChartReturned
    /\ Body("RAHU").longitude >= Deg(180)
    /\ Body("KETU").longitude = Body("RAHU").longitude - Deg(180)
    /\ Body("KETU").sign # Body("RAHU").sign
    /\ Body("KETU").house # Body("RAHU").house

(***************************************************************************)
(* C7.  In every chart produced by generate_birth_chart the Ketu record    *)
(* has retrograde = true whatever the sign of the north node's speed, and  *)
(* every other body has retrograde = (speed < 0).                          *)
(***************************************************************************)
C7_KetuAlwaysRetrograde ==
    ChartReturned =>
        \A i \in 1 .. Len(chart.planets) :
            LET p == chart.planets[i]
            IN  IF p.planet = "KETU" THEN p.retrograde = TRUE
                ELSE p.retrograde = (p.speed < 0)

(***************************************************************************)
(* C11.  The Manglik dosha record is cancelled iff both persons are        *)
(* Manglik (Mars in house 1, 2, 4, 7, 8 or 12), and then carries a reason; *)
(* its remedies list is non-empty iff at least one person is affected and  *)
(* the dosha is not cancelled.                                             *)
(***************************************************************************)
C11_ManglikCancellation ==
    Matched =>
        LET dosha == response.doshas[1]
            m1 == person1_chart.mars.house \in {1, 2, 4, 7, 8, 12}
            m2 == person2_chart.mars.house \in {1, 2, 4, 7, 8, 12}
        IN  /\ dosha.dosha_type = "Manglik"
            /\ dosha.person1_affected = m1
            /\ dosha.person2_affected = m2
            /\ dosha.cancelled = (m1 /\ m2)
            /\ (dosha.cancelled => dosha.cancellation_reason # None)
            /\ (dosha.remedies # <<>>) = ((m1 \/ m2) /\ ~dosha.cancelled)

\* Mars in house 7 for both: both affected, cancelled, no remedies.
C11_Witness ==
    /\ Matched
    /\ person1_chart.mars.house = 7
    /\ person2_chart.mars.house = 7
    /\ response.doshas[1].cancelled
    /\ response.doshas[1].remedies = <<>>

(***************************************************************************)
(* C12.  For a pair of animal classes listed in the yoni matrix (in either *)
(* order) the Yoni koota earns the listed value, 0 for the listed enemy    *)
(* pairs included; only unlisted pairs earn the default, 4 for identical   *)
(* classes and 2 otherwise.                                                *)
(***************************************************************************)
C12_YoniListed ==
    Returned("calculate_yoni_koota") =>
        LET y1 == nakshatras[call.person1_nakshatra].yoni
            y2 == nakshatras[call.person2_nakshatra].yoni
            expected ==
                IF <<y1, y2>> \in DOMAIN yoni_compatibility
                THEN yoni_compatibility[<<y1, y2>>]
                ELSE IF <<y2, y1>> \in DOMAIN yoni_compatibility
                THEN yoni_compatibility[<<y2, y1>>]
                ELSE IF y1 = y2 THEN 4 ELSE 2
        IN  ret[1].points_earned2 = 2 * expected

OffendingFields(req) ==
    {f \in {"birth_date", "birth_time", "latitude", "longitude", "timezone"} :
        \/ f = "birth_date" /\ ~ /\ req.birth_date[2] \in 1 .. 12
                                 /\ req.birth_date[3] \in 1 .. 31
                                 /\ req.birth_date # <<2020, 2, 30>>
        \/ f = "birth_time" /\ (req.birth_time[1] > 23 \/ req.birth_time[2] > 59)
        \/ f = "latitude" /\ (req.latitude < -90 \/ req.latitude > 90)
        \/ f = "longitude" /\ (req.longitude < -180 \/ req.longitude > 180)
        \/ f = "timezone" /\ req.timezone = "Mars/Olympus_Mons"}

C14_ValidationFirst ==
    OffendingFields(request) # {} =>
        /\ pc \in {"BirthChartRequest", "generate_birth_chart", "rejected", "raised"}
        /\ swe_calls = <<>>
        /\ queries = <<>>
        /\ sid_mode = None
        /\ pc \in {"rejected", "raised"} =>
              chart.fields \cap OffendingFields(request) # {}

\* An unknown zone name, everything else in order: raised, naming timezone.
C14_Witness ==
    /\ pc = "raised"
    /\ request.timezone = "Mars/Olympus_Mons"
    /\ chart.fields = {"timezone"}
    /\ swe_calls = <<>>
    /\ sid_mode = None

(***************************************************************************)
(* C15.  A well-formed birth date whose year is below 1900 or above 2100   *)
(* is never a fatal validation error: generation proceeds and returns a    *)
(* chart, with an advisory warning attached.                               *)
(***************************************************************************)
C15_YearAdvisory ==
    (/\ OffendingFields(request) = {}
     /\ (request.birth_date[1] < 1900 \/ request.birth_date[1] > 2100)) =>
        /\ pc \notin {"rejected", "raised"}
        /\ pc = "returned" => "warnings" \in DOMAIN chart

(***************************************************************************)
(* C16.  A chart request that gives no timezone name, the field left out   *)
(* or set to None, has its local date and time read as UTC, and a          *)
(* missing-timezone warning is attached to the result.                     *)
(***************************************************************************)
C16_MissingZoneIsUtc ==
    (/\ pc = "returned"
     /\ ("timezone" \notin request.fields_set \/ request.timezone = None)) =>
        /\ chart.julian_day = swe_julday(chart.birth_datetime.date,
                                         chart.birth_datetime.time)
        /\ "warnings" \in DOMAIN chart

(***************************************************************************)
(* C17.  A local time in the repeated hour of a zone (2020-11-01 01:30 in  *)
(* America/New_York) is resolved with the standard-time offset (UTC-5),    *)
(* and a DST-ambiguity warning is attached to the result.                  *)
(***************************************************************************)
C17_FallBackStandard ==
    (/\ pc = "return"
     /\ call.fn \in {"calculate_julian_day", "calculate_accurate_julian_day"}
     /\ call.timezone_str = "America/New_York"
     /\ call.birth_date = <<2020, 11, 1>>
     /\ call.birth_time[1] = 1) =>
        /\ ret[1].julian_day =
              swe_julday(strptime_date(call.birth_date), strptime_time(call.birth_time))
                + (5 * 60) \div MinutesPerTick
        /\ call.fn = "calculate_accurate_julian_day" =>
              \E i \in 1 .. Len(ret[1].warnings) :
                  ret[1].warnings[i] = "DST ambiguity resolved to standard time"

(***************************************************************************)
(* C18.  A local time in the skipped hour of a zone (2020-03-08 02:30 in   *)
(* America/New_York) is resolved with the daylight offset (UTC-4), not the *)
(* standard one, and a DST-gap warning is attached to the result.          *)
(***************************************************************************)
C18_SpringForwardDaylight ==
    (/\ pc = "return"
     /\ call.fn \in {"calculate_julian_day", "calculate_accurate_julian_day"}
     /\ call.timezone_str = "America/New_York"
     /\ call.birth_date = <<2020, 3, 8>>
     /\ call.birth_time[1] = 2) =>
        /\ ret[1].julian_day =
              swe_julday(strptime_date(call.birth_date), strptime_time(call.birth_time))
                + (4 * 60) \div MinutesPerTick
        /\ call.fn = "calculate_accurate_julian_day" =>
              \E i \in 1 .. Len(ret[1].warnings) :
                  ret[1].warnings[i] = "DST gap resolved to daylight time"

(***************************************************************************)
(* C19.  If the ephemeris reports a failure for a body query or the house  *)
(* query, the generation fails with an error and no chart is returned, and *)
(* no chart is ever returned with fewer than 12 planet records; for        *)
(* generate_birth_chart and for generate_accurate_birth_chart.             *)
(***************************************************************************)
EphemerisFailed == \E i \in 1 .. Len(swe_calls) : swe_calls[i] = "swe.Error"

C20_SiderealModeExclusive ==
    \A t \in Threads :
        /\ pc[t] = "get_ayanamsa" =>
              sid_mode = AYANAMSA_CONSTANTS[request[t].ayanamsa]
        /\ pc[t] = "calculate_houses" =>
              ayanamsa_value[t] =
                  swe_get_ayanamsa(julian_day[t], AYANAMSA_CONSTANTS[request[t].ayanamsa])

(***************************************************************************)
(* C21.  calculate_aspects examines each unordered pair of planets once;   *)
(* the separation of a pair is min(|d|, 360 - |d|), within [0,180]; the    *)
(* pair registers the first entry of the aspect table whose orb holds the  *)
(* separation, never more than one, and none when no orb holds it.         *)
(***************************************************************************)
Separation(longitude1, longitude2) ==
    LET d == Abs(longitude1 - longitude2)
    IN  IF d <= Circle - d THEN d ELSE Circle - d

\* The table entries whose orb holds a separation.
InOrb(separation) ==
    {k \in 1 .. Len(ASPECTS) :
        Abs(separation - Deg(ASPECTS[k][2])) <= Deg(ASPECTS[k][3])}

\* The positions in an aspect list of the aspects of a pair of planets.
Registered(aspect_list, planet1, planet2) ==
    {n \in 1 .. Len(aspect_list) :
        {aspect_list[n].planet1, aspect_list[n].planet2} = {planet1, planet2}}

C21_Aspects ==
    Returned("calculate_aspects") =>
        LET planet_list == call.planet_list
            aspect_list == ret[1]
            pairs == {ij \in (1 .. Len(planet_list)) \X (1 .. Len(planet_list)) :
                        ij[1] < ij[2]}
        IN  /\ \A ij \in pairs :
                LET p1 == planet_list[ij[1]]
                    p2 == planet_list[ij[2]]
                    separation == Separation(p1.longitude, p2.longitude)
                    found == Registered(aspect_list, p1.planet, p2.planet)
                IN  /\ separation \in 0 .. Deg(180)
                    /\ Cardinality(found) = IF InOrb(separation) = {} THEN 0 ELSE 1
                    /\ \A n \in found :
                          /\ aspect_list[n].planet1 = p1.planet
                          /\ aspect_list[n].planet2 = p2.planet
                          /\ aspect_list[n].angle = separation
                          /\ \E k \in InOrb(separation) :
                                /\ \A l \in InOrb(separation) : k <= l
                                /\ aspect_list[n].aspect_type = ASPECTS[k][1]
                                /\ aspect_list[n].orb =
                                      Abs(separation - Deg(ASPECTS[k][2]))
            /\ Len(aspect_list) =
                  Cardinality({ij \in pairs :
                      InOrb(Separation(planet_list[ij[1]].longitude,
                                       planet_list[ij[2]].longitude)) # {}})

\* Sun at 200, Moon at 20 and Mars at 90 degrees: Sun-Moon is an opposition
\* found by folding, Sun-Mars (110) is in no orb, Moon-Mars (70) is in none.
C21_Witness ==
    /\ Returned("calculate_aspects")
    /\ call.planet_list[1].longitude = Deg(200)
    /\ call.planet_list[2].longitude = Deg(20)
    /\ call.planet_list[3].longitude = Deg(90)
    /\ Len(ret[1]) = 1
    /\ ret[1][1].aspect_type = "Opposition"
    /\ ret[1][1].angle = Deg(180)

(***************************************************************************)
(* C29.  The orb intervals of the nine entries of the aspect table are     *)
(* pairwise disjoint on [0,180]: every separation is in the orb of at most *)
(* one entry, so the aspect calculate_aspects registers for a pair is the  *)
(* only entry that holds its separation, whatever the order of the table.  *)
(***************************************************************************)
\* The two ends, within [0,180], of the orb of entry k, in degrees.
OrbLow(k) == IF ASPECTS[k][2] - ASPECTS[k][3] < 0 THEN 0 ELSE ASPECTS[k][2] - ASPECTS[k][3]

OrbHigh(k) ==
    IF ASPECTS[k][2] + ASPECTS[k][3] > 180 THEN 180 ELSE ASPECTS[k][2] + ASPECTS[k][3]

C29_OrbsDisjoint ==
    /\ Len(ASPECTS) = 9
    /\ \A k, l \in 1 .. Len(ASPECTS) :
          k # l => (OrbHigh(k) < OrbLow(l) \/ OrbHigh(l) < OrbLow(k))
    /\ Returned("calculate_aspects") =>
          \A n \in 1 .. Len(ret[1]) :
              {ASPECTS[k][1] : k \in InOrb(ret[1][n].angle)} = {ret[1][n].aspect_type}

\* A separation of 133 degrees, at the edge of the sesquiquadrate orb and 5
\* degrees past the trine orb, registers the sesquiquadrate, the last entry.
C29_Witness ==
    /\ Returned("calculate_aspects")
    /\ \E n \in 1 .. Len(ret[1]) :
          ret[1][n].angle = Deg(133) /\ ret[1][n].aspect_type = "Sesquiquadrate"

(***************************************************************************)
(* C23.  In a chart returned by generate_birth_chart every planet          *)
(* longitude and house cusp is in [0,360); its sign is the                 *)
(* floor(longitude/30)-th zodiac sign, a boundary 30k belonging to the     *)
(* later sign; the degree in sign is longitude mod 30, in [0,30), with     *)
(* 30 * signIndex + degree = longitude; the house number is in 1..12; and  *)
(* the sign derivation has not failed for any stored longitude.            *)
(***************************************************************************)
SignIndex(sign) == CHOOSE k \in 0 .. 11 : ZODIAC_SIGNS[k + 1] = sign

C23_RecordsNormalized ==
    ChartReturned =>
        /\ \A i \in 1 .. Len(chart.planets) :
              LET p == chart.planets[i] IN
              /\ p.longitude \in 0 .. (Circle - 1)
              /\ p.sign \in {ZODIAC_SIGNS[k] : k \in 1 .. 12}
              /\ Deg(30) * SignIndex(p.sign) <= p.longitude
              /\ p.longitude < Deg(30) * (SignIndex(p.sign) + 1)
              /\ p.degree \in 0 .. (Deg(30) - 1)
              /\ Deg(30) * SignIndex(p.sign) + p.degree = p.longitude
              /\ p.house \in 1 .. 12
        /\ \A i \in 1 .. Len(chart.houses) :
              LET h == chart.houses[i] IN
              /\ h.number = i
              /\ h.cusp \in 0 .. (Circle - 1)
              /\ h.sign \in {ZODIAC_SIGNS[k] : k \in 1 .. 12}
              /\ Deg(30) * SignIndex(h.sign) <= h.cusp
              /\ h.cusp < Deg(30) * (SignIndex(h.sign) + 1)

\* A returned chart with a planet exactly on a sign boundary 30k, k > 0.
C23_Witness ==
    /\ ChartReturned
    /\ \E i \in 1 .. Len(chart.planets) :
          /\ chart.planets[i].longitude > 0
          /\ chart.planets[i].longitude % Deg(30) = 0
          /\ chart.planets[i].degree = 0

(***************************************************************************)
(* C24.  generate_chart_summary: the sign histogram and the house          *)
(* histogram each sum to the number of planets; the dominant sign (house)  *)
(* has the largest count and, among keys tied for it, is the one met first *)
(* in planet-list order; retrograde_planets counts the planets whose       *)
(* retrograde flag is set; ascendant_sign is the sign of house 1.          *)
(***************************************************************************)
RECURSIVE SumOf(_, _)
SumOf(histogram, keys) ==
    IF keys = {} THEN 0
    ELSE LET key == CHOOSE k \in keys : TRUE
         IN  histogram[key] + SumOf(histogram, keys \ {key})

\* key has the largest count of histogram and no key of an earlier list
\* element has as large a count.
FirstMaximum(key, histogram, planet_list, field) ==
    /\ key \in DOMAIN histogram
    /\ \A k \in DOMAIN histogram : histogram[k] <= histogram[key]
    /\ \E i \in 1 .. Len(planet_list) :
          /\ planet_list[i][field] = key
          /\ \A k \in 1 .. (i - 1) :
                histogram[planet_list[k][field]] < histogram[key]

C24_Summary ==
    ChartReturned =>
        LET summary == chart.chart_summary
            by_sign == summary.planets_by_sign
            by_house == summary.planets_by_house
        IN  /\ SumOf(by_sign, DOMAIN by_sign) = Len(chart.planets)
            /\ SumOf(by_house, DOMAIN by_house) = Len(chart.planets)
            /\ \A sg \in DOMAIN by_sign :
                  by_sign[sg] = Cardinality({i \in 1 .. Len(chart.planets) :
                                                chart.planets[i].sign = sg})
            /\ \A h \in DOMAIN by_house :
                  by_house[h] = Cardinality({i \in 1 .. Len(chart.planets) :
                                                chart.planets[i].house = h})
            /\ FirstMaximum(summary.dominant_sign, by_sign, chart.planets, "sign")
            /\ FirstMaximum(summary.dominant_house, by_house, chart.planets, "house")
            /\ summary.retrograde_planets =
                  Cardinality({i \in 1 .. Len(chart.planets) :
                                  chart.planets[i].retrograde})
            /\ summary.ascendant_sign = chart.houses[1].sign

\* A returned chart in which another sign ties with the dominant sign.
C24_Witness ==
    /\ ChartReturned
    /\ \E sg \in DOMAIN chart.chart_summary.planets_by_sign :
          /\ sg # chart.chart_summary.dominant_sign
          /\ chart.chart_summary.planets_by_sign[sg] =
                chart.chart_summary.planets_by_sign[chart.chart_summary.dominant_sign]

(***************************************************************************)
(* C30.  Every chart generate_birth_chart returns holds exactly one aspect *)
(* between Rahu and Ketu, and it is an Opposition with orb 0, whatever the *)
(* birth data: Ketu is in the planet list given to calculate_aspects,      *)
(* exactly 180 degrees from Rahu.                                          *)
(***************************************************************************)
C30_NodesOpposed ==
    ChartReturned =>
        LET nodes == {n \in 1 .. Len(chart.aspects) :
                        {chart.aspects[n].planet1, chart.aspects[n].planet2}
                            = {"RAHU", "KETU"}}
        IN  /\ Cardinality(nodes) = 1
            /\ \A n \in nodes :
                  /\ chart.aspects[n].aspect_type = "Opposition"
                  /\ chart.aspects[n].angle = Deg(180)
                  /\ chart.aspects[n].orb = 0

\* A returned chart with Rahu past 180 degrees, so that Ketu wraps round 0.
C30_Witness ==
    /\ ChartReturned
    /\ Body("RAHU").longitude >= Deg(180)
    /\ Body("KETU").longitude < Deg(180)
    /\ \E n \in 1 .. Len(chart.aspects) :
          /\ chart.aspects[n].planet1 = "KETU"
          /\ chart.aspects[n].planet2 = "RAHU"
          /\ chart.aspects[n].aspect_type = "Opposition"

(***************************************************************************)
(* C22.  The overall level calculate_compatibility_match returns agrees    *)
(* with the interpretation table of /compatibility-info: 30-36 points are  *)
(* Excellent, 24-29 Very Good, 18-23 Good, 12-17 Average, 6-11 Below       *)
(* Average and 0-5 Poor.                                                   *)
(***************************************************************************)
LevelOfText ==
    ("Excellent match" :> "Excellent") @@ ("Very good match" :> "Very Good") @@
    ("Good match" :> "Good") @@ ("Average match" :> "Average") @@
    ("Below average match" :> "Below Average") @@ ("Poor match" :> "Poor")

C22_DocumentedBands ==
    Matched =>
        \A b \in 1 .. Len(interpretation) :
            (/\ 2 * interpretation[b][1] <= response.total_points2
             /\ response.total_points2 <= 2 * interpretation[b][2]) =>
                response.compatibility_level = LevelOfText[interpretation[b][3]]

(***************************************************************************)
(* C26.  The severity stored in the Manglik dosha record is the more       *)
(* severe of the two persons' severities under None < Medium < High: with  *)
(* exactly one person Manglik by Mars in house 1, 4, 7, 8 or 12 the record *)
(* (affected, not cancelled) has severity High, and it has severity None   *)
(* only when neither person is Manglik.                                    *)
(***************************************************************************)
SeverityRank == ("None" :> 0) @@ ("Medium" :> 1) @@ ("High" :> 2)

SeverityOfHouse(house) ==
    IF house \in {1, 4, 7, 8, 12} THEN "High"
    ELSE IF house = 2 THEN "Medium" ELSE "None"

C26_ManglikSeverity ==
    Matched =>
        LET manglik == response.doshas[1]
            s1 == SeverityOfHouse(person1_chart.mars.house)
            s2 == SeverityOfHouse(person2_chart.mars.house)
        IN  /\ manglik.dosha_type = "Manglik"
            /\ manglik.severity =
                  IF SeverityRank[s1] >= SeverityRank[s2] THEN s1 ELSE s2
            /\ manglik.severity = "None" => (s1 = "None" /\ s2 = "None")

(***************************************************************************)
(* C27.  Exchanging person 1 and person 2 leaves the points earned by      *)
(* Vashya, Tara, Yoni, Grah Maitri, Gana, Bhakoot and Nadi unchanged; only *)
(* Varna may differ, so total_points changes by at most 1.                 *)
(***************************************************************************)
C27_SwapSymmetry ==
    Matched =>
        LET swapped == CompatibilityMatchResponse(person2_chart, person1_chart)
        IN  /\ \A k \in 2 .. 8 :
                  /\ swapped.koota_scores[k].koota_type =
                        response.koota_scores[k].koota_type
                  /\ swapped.koota_scores[k].points_earned2 =
                        response.koota_scores[k].points_earned2
            /\ Abs(swapped.total_points2 - response.total_points2) <= 2

\* A match whose Vashya points are found only in the reversed ordering of the
\* matrix and whose Varna points differ between the two orders of the persons.
C27_Witness ==
    /\ Matched
    /\ LET v1 == vashya_system[person1_chart.moon.sign]
           v2 == vashya_system[person2_chart.moon.sign]
       IN  /\ Get(vashya_compatibility, <<v1, v2>>, 0) = 0
           /\ Get(vashya_compatibility, <<v2, v1>>, 0) > 0
    /\ response.koota_scores[2].points_earned2 > 0
    /\ CompatibilityMatchResponse(person2_chart, person1_chart).koota_scores[1].points_earned2
           # response.koota_scores[1].points_earned2

(***************************************************************************)
(* C28.  The two directional Tara distances of distinct nakshatras sum to  *)
(* 29, so Tara earns its full 3 points exactly when both persons have the  *)
(* same Moon nakshatra; then Nadi earns 0, and a total of 36 points is     *)
(* never attained.                                                         *)
(***************************************************************************)
C28_TaraReachability ==
    Matched =>
        LET n1 == calculate_nakshatra_from_moon(person1_chart.moon.longitude)
            n2 == calculate_nakshatra_from_moon(person2_chart.moon.longitude)
            tara == response.koota_scores[3]
            nadi == response.koota_scores[8]
        IN  /\ tara.koota_type = "Tara" /\ nadi.koota_type = "Nadi"
            /\ n1 # n2 => (((n2 - n1) % 27) + 1) + (((n1 - n2) % 27) + 1) = 29
            /\ (tara.points_earned2 = 2 * 3) <=> (n1 = n2)
            /\ tara.points_earned2 = 2 * 3 => nadi.points_earned2 = 0
            /\ response.total_points2 < 2 * 36

\* A match of two Moons in the same nakshatra: Tara 3, Nadi 0.
C28_Witness ==
    /\ Matched
    /\ response.koota_scores[3].points_earned2 = 2 * 3
    /\ response.koota_scores[8].points_earned2 = 0
    /\ person1_chart.moon.sign # person2_chart.moon.sign

(***************************************************************************)
(* C25.  When chart generation or the Ashtakoota computation fails for     *)
(* either person, calculate_enhanced_compatibility_match surfaces the      *)
(* failure as an error: it never returns a score for a request whose       *)
(* charts could not be computed.                                           *)
(***************************************************************************)
C25_FailureSurfaced ==
    (EnhancedReturned /\ ChartsFailed(call.outcome)) =>
        "final_score" \notin DOMAIN response

====
